---- MODULE Spec2Model ----
(***************************************************************************)
(* A model of the juice SQL mapper: the dynamic SQL renderer of node.go    *)
(* (TextNode, ConditionNode, WhereNode, TrimNode, ForeachNode, SetNode,    *)
(* SQLNode, IncludeNode, ChooseNode, NodeGroup) and the XML loader         *)
(* (XMLParser).  SQL text is a TLA+ string; Go's strings package is        *)
(* modelled by the operators of the first section.                         *)
(***************************************************************************)
EXTENDS Integers, Sequences, FiniteSets, TLC

RECURSIVE IndexFrom(_, _, _)
RECURSIVE TrimLeftSpace(_)
RECURSIVE TrimRightSpace(_)
RECURSIVE CountFrom(_, _, _)
RECURSIVE SkipSpaces(_, _)
RECURSIVE SkipName(_, _)
RECURSIVE FindAllFrom(_, _, _)
RECURSIVE FindAllAfter(_, _, _, _)
RECURSIVE GetFrom(_, _, _)
RECURSIVE SplitFrom(_, _, _)

(***************************************************************************)
(* Go strings package                                                      *)
(***************************************************************************)

\* s[i:j] of Go for 0-based i <= j, as a 1-based SubSeq
Slice(s, i, j) == SubSeq(s, i + 1, j)

CharAt(s, i) == SubSeq(s, i, i)

HasPrefix(s, prefix) ==
    Len(prefix) <= Len(s) /\ SubSeq(s, 1, Len(prefix)) = prefix

HasSuffix(s, suffix) ==
    Len(suffix) <= Len(s) /\ SubSeq(s, Len(s) - Len(suffix) + 1, Len(s)) = suffix

TrimPrefix(s, prefix) ==
    IF HasPrefix(s, prefix) THEN SubSeq(s, Len(prefix) + 1, Len(s)) ELSE s

TrimSuffix(s, suffix) ==
    IF HasSuffix(s, suffix) THEN SubSeq(s, 1, Len(s) - Len(suffix)) ELSE s

\* the white space of unicode.IsSpace that can occur in the modelled texts
IsSpace(c) == c \in {" ", "\t", "\n", "\r"}

TrimLeftSpace(s) ==
    IF Len(s) > 0 /\ IsSpace(CharAt(s, 1))
    THEN TrimLeftSpace(SubSeq(s, 2, Len(s)))
    ELSE s

TrimRightSpace(s) ==
    IF Len(s) > 0 /\ IsSpace(CharAt(s, Len(s)))
    THEN TrimRightSpace(SubSeq(s, 1, Len(s) - 1))
    ELSE s

TrimSpace(s) == TrimRightSpace(TrimLeftSpace(s))

\* strings.Index from 1-based position i on; 0 when sub does not occur
IndexFrom(s, sub, i) ==
    IF i + Len(sub) - 1 > Len(s) THEN 0
    ELSE IF SubSeq(s, i, i + Len(sub) - 1) = sub THEN i
    ELSE IndexFrom(s, sub, i + 1)

Index(s, sub) == IndexFrom(s, sub, 1)

\* strings.Replace(s, old, new, 1) for a non-empty old
Replace1(s, old, new) ==
    LET i == Index(s, old) IN
    IF i = 0 THEN s
    ELSE SubSeq(s, 1, i - 1) \o new \o SubSeq(s, i + Len(old), Len(s))

\* strings.Count for a non-empty sub, from position i on
CountFrom(s, sub, i) ==
    LET j == IndexFrom(s, sub, i) IN
    IF j = 0 THEN 0 ELSE 1 + CountFrom(s, sub, j + Len(sub))

Count(s, sub) == CountFrom(s, sub, 1)

\* strings.Split(s, sep) for a non-empty sep; start is the start of the current piece
SplitFrom(s, sep, start) ==
    LET j == IndexFrom(s, sep, start) IN
    IF j = 0 THEN << SubSeq(s, start, Len(s)) >>
    ELSE << SubSeq(s, start, j - 1) >> \o SplitFrom(s, sep, j + Len(sep))

Split(s, sep) == SplitFrom(s, sep, 1)

(***************************************************************************)
(* The regular expressions of TextNode                                     *)
(***************************************************************************)

\* the character class [a-zA-Z0-9_\.]
NameChars ==
    { "a", "b", "c", "d", "e", "f", "g", "h", "i", "j", "k", "l", "m",
      "n", "o", "p", "q", "r", "s", "t", "u", "v", "w", "x", "y", "z",
      "A", "B", "C", "D", "E", "F", "G", "H", "I", "J", "K", "L", "M",
      "N", "O", "P", "Q", "R", "S", "T", "U", "V", "W", "X", "Y", "Z",
      "0", "1", "2", "3", "4", "5", "6", "7", "8", "9", "_", "." }

\* the first position >= i of s that holds no blank
SkipSpaces(s, i) ==
    IF i <= Len(s) /\ CharAt(s, i) = " " THEN SkipSpaces(s, i + 1) ELSE i

\* the first position >= i of s that holds no name character
SkipName(s, i) ==
    IF i <= Len(s) /\ CharAt(s, i) \in NameChars THEN SkipName(s, i + 1) ELSE i

\* a match of  sigil\{ *?([a-zA-Z0-9_\.]+) *?\}  that starts at position i:
\* [ok, end (the position after the match), name]
MatchAt(s, sigil, i) ==
    IF ~ (i + 1 <= Len(s) /\ CharAt(s, i) = sigil /\ CharAt(s, i + 1) = "{")
    THEN [ok |-> FALSE, end |-> i, name |-> ""]
    ELSE LET n0 == SkipSpaces(s, i + 2)
             n1 == SkipName(s, n0)
             n2 == SkipSpaces(s, n1)
         IN  IF n1 > n0 /\ n2 <= Len(s) /\ CharAt(s, n2) = "}"
             THEN [ok |-> TRUE, end |-> n2 + 1, name |-> SubSeq(s, n0, n1 - 1)]
             ELSE [ok |-> FALSE, end |-> i, name |-> ""]

\* Regexp.FindAllStringSubmatch(s, -1): the leftmost non-overlapping matches,
\* each << matched text, captured name >>
FindAllFrom(s, sigil, i) ==
    IF i > Len(s) THEN << >> ELSE FindAllAfter(s, sigil, i, MatchAt(s, sigil, i))

\* the matches from position i on, m being the match that starts at i
FindAllAfter(s, sigil, i, m) ==
    IF m.ok
    THEN << << SubSeq(s, i, m.end - 1), m.name >> >> \o FindAllFrom(s, sigil, m.end)
    ELSE FindAllFrom(s, sigil, i + 1)

paramRegex(s) == FindAllFrom(s, "#", 1)

formatRegexp(s) == FindAllFrom(s, "$", 1)

(***************************************************************************)
(* Parameter values (reflect.Value), the parameter view and the scope      *)
(* stack of package eval                                                   *)
(***************************************************************************)

\* a value and its reflect.Kind; every value has the same fields
IntV(n) == [kind |-> "int", n |-> n, s |-> "", keys |-> << >>, elems |-> << >>]

StrV(s) == [kind |-> "string", n |-> 0, s |-> s, keys |-> << >>, elems |-> << >>]

BoolV(b) ==
    [kind |-> "bool", n |-> IF b THEN 1 ELSE 0, s |-> "", keys |-> << >>, elems |-> << >>]

\* a slice of values
SliceV(elems) == [kind |-> "slice", n |-> 0, s |-> "", keys |-> << >>, elems |-> elems]

\* a map: keys[i] is the string key of elems[i]
MapV(keys, elems) == [kind |-> "map", n |-> 0, s |-> "", keys |-> keys, elems |-> elems]

NotFound == [found |-> FALSE, value |-> IntV(0)]

Found(v) == [found |-> TRUE, value |-> v]

\* the position of key k in the key list ks, 0 when absent
KeyPos(ks, k) ==
    IF \E i \in 1..Len(ks) : ks[i] = k
    THEN CHOOSE i \in 1..Len(ks) : ks[i] = k
    ELSE 0

\* the rest of a path lookup: each further segment is a key of the current map
WalkPath(v, segs, i) ==
    LET Walk[j \in i..(Len(segs) + 1)] ==
            IF j = i THEN Found(v)
            ELSE LET prev == Walk[j - 1] IN
                 IF ~ prev.found \/ prev.value.kind # "map" THEN NotFound
                 ELSE LET k == KeyPos(prev.value.keys, segs[j - 1]) IN
                      IF k = 0 THEN NotFound ELSE Found(prev.value.elems[k])
    IN  Walk[Len(segs) + 1]

\* the lookup of the path segs in a view
ViewWalk(view, segs) ==
    IF segs[1] \notin DOMAIN view THEN NotFound
    ELSE WalkPath(view[segs[1]], segs, 2)

\* one parameter view: a.b.c is split on dots, the first segment is a name of the
\* view, the others are resolved on the value found so far
ViewGet(view, name) == ViewWalk(view, Split(name, "."))

\* ParamGroup.Get from the i-th view on, v being what the i-th view has
GetAfter(p, name, i, v) == IF v.found THEN v ELSE GetFrom(p, name, i + 1)

GetFrom(p, name, i) ==
    IF i > Len(p) THEN NotFound ELSE GetAfter(p, name, i, ViewGet(p[i], name))

\* ParamGroup.Get: the views are asked in order, the first hit wins
Get(p, name) == GetFrom(p, name, 1)

\* eval.H{item: v, index: i}.AsParam() in front of the enclosing scope p; in a
\* Go map literal the later entry wins when both names are equal
PushScope(p, Item, item, Idx, index) ==
    << (Idx :> index) @@ (Item :> item) >> \o p

\* the string form of a value spliced in for ${name}
reflectValueToString(v) ==
    CASE v.kind = "int" -> ToString(v.n)
      [] v.kind = "string" -> v.s
      [] v.kind = "bool" -> (IF v.n = 1 THEN "true" ELSE "false")
      [] OTHER -> ""

(***************************************************************************)
(* Expressions of package eval: a compiled test is its syntax tree         *)
(***************************************************************************)

Lit(v) == [op |-> "lit", value |-> v]

Var(name) == [op |-> "var", name |-> name]

Bin(op, l, r) == [op |-> op, l |-> l, r |-> r]

Not(e) == [op |-> "not", l |-> e]

EvalOk(v) == [value |-> v, err |-> ""]

EvalErr(e) == [value |-> IntV(0), err |-> e]

\* the value of an identifier, g being what the scope has for it
Identifier(g) == IF g.found THEN EvalOk(g.value) ELSE EvalErr("undefined identifier")

RECURSIVE Execute(_, _)
\* Expression.Execute: the value of the expression in scope p, or an error
Execute(e, p) ==
    CASE e.op = "lit" -> EvalOk(e.value)
      [] e.op = "var" ->
            Identifier(Get(p, e.name))
      [] e.op = "not" ->
            LET l == Execute(e.l, p) IN
            IF l.err # "" THEN l
            ELSE IF l.value.kind # "bool" THEN EvalErr("invalid operation")
            ELSE EvalOk(BoolV(l.value.n = 0))
      [] e.op \in {"eq", "ne", "gt", "lt", "and", "or"} ->
            LET l == Execute(e.l, p)
                r == Execute(e.r, p)
            IN  IF l.err # "" THEN l
                ELSE IF r.err # "" THEN r
                ELSE IF l.value.kind # r.value.kind THEN EvalErr("invalid operation")
                ELSE CASE e.op = "eq" -> EvalOk(BoolV(l.value = r.value))
                       [] e.op = "ne" -> EvalOk(BoolV(l.value # r.value))
                       [] e.op = "gt" ->
                             IF l.value.kind = "int"
                             THEN EvalOk(BoolV(l.value.n > r.value.n))
                             ELSE EvalErr("invalid operation")
                       [] e.op = "lt" ->
                             IF l.value.kind = "int"
                             THEN EvalOk(BoolV(l.value.n < r.value.n))
                             ELSE EvalErr("invalid operation")
                       [] e.op = "and" ->
                             IF l.value.kind = "bool"
                             THEN EvalOk(BoolV(l.value.n = 1 /\ r.value.n = 1))
                             ELSE EvalErr("invalid operation")
                       [] e.op = "or" ->
                             IF l.value.kind = "bool"
                             THEN EvalOk(BoolV(l.value.n = 1 \/ r.value.n = 1))
                             ELSE EvalErr("invalid operation")

(***************************************************************************)
(* Nodes                                                                   *)
(***************************************************************************)

\* NewTextNode: the value and the two match lists that build() precomputes
NewTextNode(str) ==
    [kind |-> "text", value |-> str,
     placeholder |-> paramRegex(str),
     textSubstitution |-> formatRegexp(str)]

pureTextNode(str) == [kind |-> "pure", value |-> str]

NodeGroup(nodes) == [kind |-> "group", Nodes |-> nodes]

\* IfNode and WhenNode are the same type
ConditionNode(expr, nodes) == [kind |-> "if", expr |-> expr, Nodes |-> nodes]

WhereNode(nodes) == [kind |-> "where", Nodes |-> nodes]

TrimNode(nodes, prefix, prefixOverrides, suffix, suffixOverrides) ==
    [kind |-> "trim", Nodes |-> nodes,
     Prefix |-> prefix, PrefixOverrides |-> prefixOverrides,
     Suffix |-> suffix, SuffixOverrides |-> suffixOverrides]

ForeachNode(collection, nodes, item, index, open, close, separator) ==
    [kind |-> "foreach", Collection |-> collection, Nodes |-> nodes,
     Item |-> item, Index |-> index,
     Open |-> open, Close |-> close, Separator |-> separator]

SetNode(nodes) == [kind |-> "set", Nodes |-> nodes]

SQLNode(mapper, id, nodes) == [kind |-> "sql", mapper |-> mapper, id |-> id, nodes |-> nodes]

\* nid is the identity (the address) of the IncludeNode: the key of its cached sqlNode
IncludeNode(nid, mapper, refId) ==
    [kind |-> "include", nid |-> nid, mapper |-> mapper, refId |-> refId]

ChooseNode(whenNodes, otherwiseNode) ==
    [kind |-> "choose", WhenNodes |-> whenNodes, OtherwiseNode |-> otherwiseNode]

OtherwiseNode(nodes) == [kind |-> "otherwise", Nodes |-> nodes]

\* a nil Node
NilNode == [kind |-> "nil"]

\* what the nodes that ran have done and met: links is the set of
\* << nid, fragment key >> that IncludeNodes have resolved and stored, keys is the
\* list of keys that MapKeys returned (<< >> when no map was listed), raised is the
\* first error a node returned ("" when none did)
NoFx == [links |-> {}, keys |-> << >>, raised |-> ""]

Linked(nid, key) == [links |-> {<< nid, key >>}, keys |-> << >>, raised |-> ""]

Listed(keys) == [links |-> {}, keys |-> keys, raised |-> ""]

Join(f, g) ==
    [links |-> f.links \cup g.links,
     keys |-> IF g.keys # << >> THEN g.keys ELSE f.keys,
     raised |-> IF f.raised # "" THEN f.raised ELSE g.raised]

\* the query, the arguments and the error ("" is nil) an Accept returns, with what
\* it has done
Ok(q, a, fx) == [query |-> q, args |-> a, err |-> "", fx |-> fx]

Fail(e, fx) ==
    [query |-> "", args |-> << >>, err |-> e,
     fx |-> [fx EXCEPT !.raised = IF @ = "" THEN e ELSE @]]

(***************************************************************************)
(* The loaded configuration that the renders run against: the SQL          *)
(* fragments of two mappers, A and B                                       *)
(***************************************************************************)

SqlNodes ==
    << SQLNode("A", "cols", << NewTextNode("id, name") >>),
       SQLNode("A", "byId",
               << ConditionNode(Bin("ne", Var("id"), Lit(IntV(0))),
                                << NewTextNode("AND id = #{id}") >>) >>),
       SQLNode("A", "both",
               << IncludeNode("i2", "A", "cols"), NewTextNode("FROM t") >>),
       SQLNode("A", "opt",
               << NewTextNode("a = #{a}"),
                  ConditionNode(Bin("ne", Var("id"), Lit(IntV(0))),
                                << NewTextNode("AND id = #{id}") >>) >>),
       SQLNode("B", "tail", << NewTextNode("ORDER BY ${col}") >>) >>

\* the identities of the IncludeNodes of the configuration
IncludeIds ==
    { "i1", "i2", "i3", "i4", "i5", "i6", "i8", "i9", "i10", "i11", "i12",
      "deep1", "deep2", "deep3", "deep4", "deep5", "deep6", "deep7", "deep8" }

\* the key of a fragment in the registry
SqlKey(n) == n.mapper \o "." \o n.id

NodeOfKey(nodes, key) == nodes[CHOOSE i \in 1..Len(nodes) : SqlKey(nodes[i]) = key]

\* the fragment stored under a key
SqlNodeOf(key) == NodeOfKey(SqlNodes, key)

\* the key when a fragment is stored under it, the error when none is
FindKey(nodes, key) ==
    IF \E i \in 1..Len(nodes) : SqlKey(nodes[i]) = key
    THEN [key |-> key, err |-> ""]
    ELSE [key |-> "", err |-> "sql node not found"]

\* the key GetSQLNodeByID looks up
RefKey(mapper, refId) == IF Index(refId, ".") # 0 THEN refId ELSE mapper \o "." \o refId

\* Mapper.GetSQLNodeByID: a refid with a dot is namespace.id, any other is an id
\* of the owning mapper's own fragment table
GetSQLNodeByID(mapper, refId) == FindKey(SqlNodes, RefKey(mapper, refId))

(***************************************************************************)
(* The state                                                               *)
(***************************************************************************)

VARIABLES
    sqlNode,    \* IncludeNode.sqlNode of every IncludeNode: a fragment key, "" is nil
    dialect,    \* the driver whose Translator the renders use
    param,      \* the parameter of the renders
    stmt,       \* the statement rendered last, "" before the first render
    keyOrder,   \* the keys as MapKeys listed them in that render, << >> if it listed none
    result,     \* what that render returned
    prev        \* what the render before it returned, when it was of the same statement

\* the loader
VARIABLES
    doc,            \* the tokens of the document Parse reads
    files,          \* XMLParser.FS and the web: the tokens behind each name
    pos,            \* how many tokens of doc the decoder has handed out
    phase,          \* the function of the loader that reads the next token
    mappers,        \* the Mappers that parseMappers fills
    configuration,  \* XMLParser.configuration, and what Parse returns at the end
    loadErr         \* the error Parse returned, "" for none

\* the renders of a cyclic configuration
VARIABLES
    fragments,      \* the sql nodes of the mapper: the nodes of each fragment
    stack,          \* the calls of Accept that have not returned, innermost last
    linked,         \* the IncludeNodes whose sqlNode is set
    outcome         \* how the render ended

\* concurrent renders
VARIABLES
    pc,             \* where each render is in IncludeNode.Accept
    inc,            \* the IncludeNode each render is in
    seen,           \* what each render read from i.sqlNode
    word,           \* the two words of i.sqlNode of every IncludeNode
    races           \* the IncludeNodes on which two accesses have raced

renderVars == << sqlNode, dialect, param, stmt, keyOrder, result, prev >>
loadVars == << doc, files, pos, phase, mappers, configuration, loadErr >>
includeVars == << fragments, stack, linked, outcome >>
concVars == << pc, inc, seen, word, races >>
vars == << renderVars, loadVars, includeVars, concVars >>

\* the part of the state a specification does not use stays as it is here
RenderIdle ==
    /\ sqlNode = << >> /\ dialect = "positional" /\ param = << >> /\ stmt = ""
    /\ keyOrder = << >> /\ result = << >> /\ prev = << >>

LoadIdle ==
    /\ doc = << >> /\ files = << >> /\ pos = 0 /\ phase = "" /\ mappers = << >>
    /\ configuration = << >> /\ loadErr = ""

IncludeIdle == fragments = << >> /\ stack = << >> /\ linked = {} /\ outcome = ""

ConcIdle == pc = << >> /\ inc = << >> /\ seen = << >> /\ word = << >> /\ races = {}

\* driver.Translator.Translate: the placeholder of a named parameter
Translate(name) == IF dialect = "named" THEN ":" \o name ELSE "?"

(***************************************************************************)
(* Accept                                                                  *)
(***************************************************************************)

RECURSIVE Accept(_, _, _)
RECURSIVE NodeGroupLoop(_, _, _, _, _, _, _)
RECURSIVE WhereLoop(_, _, _, _, _, _, _)
RECURSIVE TrimLoop(_, _, _, _, _, _, _)
RECURSIVE SetLoop(_, _, _, _, _, _, _)
RECURSIVE ForeachNodesLoop(_, _, _, _, _, _, _)
RECURSIVE SliceLoop(_, _, _, _, _, _, _, _)
RECURSIVE MapLoop(_, _, _, _, _, _, _, _, _)
RECURSIVE ChooseLoop(_, _, _, _, _)
RECURSIVE replaceHolderLoop(_, _, _, _, _)
RECURSIVE replaceHolderWith(_, _, _, _, _, _)
RECURSIVE replaceTextSubstitutionWith(_, _, _, _, _)
RECURSIVE replaceTextSubstitutionLoop(_, _, _, _)
RECURSIVE FirstOverride(_, _, _, _)

\* NodeGroup.Accept, the loop from child i on
NodeGroupLoop(g, i, builder, args, fx, p, ord) ==
    IF i > Len(g) THEN Ok(builder, args, fx)
    ELSE LET r == Accept(g[i], p, ord) IN
         IF r.err # "" THEN Fail(r.err, Join(fx, r.fx))
         ELSE LET b1 == IF Len(r.query) > 0 THEN builder \o r.query ELSE builder
                  a1 == IF Len(r.args) > 0 THEN args \o r.args ELSE args
                  b2 == IF i < Len(g) /\ Len(r.query) > 0 /\ ~ HasSuffix(r.query, " ")
                        THEN b1 \o " "
                        ELSE b1
              IN  NodeGroupLoop(g, i + 1, b2, a1, Join(fx, r.fx), p, ord)

NodeGroupAccept(g, p, ord) == NodeGroupLoop(g, 1, "", << >>, NoFx, p, ord)

\* pureTextNode.Accept
pureTextAccept(n) == Ok(n.value, << >>, NoFx)

\* TextNode.replaceHolder, placeholder k, v being what the parameter has for its name
replaceHolderWith(c, k, query, args, p, v) ==
    IF ~ v.found THEN Fail("parameter not found", NoFx)
    ELSE replaceHolderLoop(c, k + 1,
                           Replace1(query, c.placeholder[k][1],
                                    Translate(c.placeholder[k][2])),
                           Append(args, v.value), p)

\* TextNode.replaceHolder, from placeholder k on
replaceHolderLoop(c, k, query, args, p) ==
    IF k > Len(c.placeholder) THEN Ok(query, args, NoFx)
    ELSE IF Len(c.placeholder[k]) # 2 THEN Fail("invalid parameter", NoFx)
    ELSE replaceHolderWith(c, k, query, args, p, Get(p, c.placeholder[k][2]))

replaceHolder(c, query, args, p) == replaceHolderLoop(c, 1, query, args, p)

\* TextNode.replaceTextSubstitution, substitution k, v being what the parameter has
\* for its name
replaceTextSubstitutionWith(c, k, query, p, v) ==
    IF ~ v.found THEN Fail("parameter not found", NoFx)
    ELSE replaceTextSubstitutionLoop(c, k + 1,
                                     Replace1(query, c.textSubstitution[k][1],
                                              reflectValueToString(v.value)), p)

\* TextNode.replaceTextSubstitution, from substitution k on
replaceTextSubstitutionLoop(c, k, query, p) ==
    IF k > Len(c.textSubstitution) THEN Ok(query, << >>, NoFx)
    ELSE IF Len(c.textSubstitution[k]) # 2 THEN Fail("invalid text substitution", NoFx)
    ELSE replaceTextSubstitutionWith(c, k, query, p, Get(p, c.textSubstitution[k][2]))

replaceTextSubstitution(c, query, p) == replaceTextSubstitutionLoop(c, 1, query, p)

\* TextNode.Accept after replaceTextSubstitution has returned t
TextSubstituted(h, t) ==
    IF t.err # "" THEN Fail(t.err, NoFx) ELSE Ok(t.query, h.args, NoFx)

\* TextNode.Accept after replaceHolder has returned h
TextHeld(c, p, h) ==
    IF h.err # "" THEN Fail(h.err, NoFx)
    ELSE TextSubstituted(h, replaceTextSubstitution(c, h.query, p))

\* TextNode.Accept
TextAccept(c, p) ==
    IF Len(c.placeholder) = 0 /\ Len(c.textSubstitution) = 0
    THEN Ok(c.value, << >>, NoFx)
    ELSE TextHeld(c, p, replaceHolder(c, c.value, << >>, p))

\* ConditionNode.Match on the value v of the expression
Truth(v) ==
    IF v.err # "" THEN [matched |-> FALSE, err |-> v.err]
    ELSE CASE v.value.kind = "bool" -> [matched |-> v.value.n = 1, err |-> ""]
           [] v.value.kind = "int" -> [matched |-> v.value.n # 0, err |-> ""]
           [] v.value.kind = "string" -> [matched |-> v.value.s # "", err |-> ""]
           [] OTHER -> [matched |-> FALSE, err |-> "unsupported type"]

\* ConditionNode.Match: [matched, err]
Match(c, p) == Truth(Execute(c.expr, p))

\* ConditionNode.Accept after Match has returned m
ConditionMatched(c, p, ord, m) ==
    IF m.err # "" THEN Fail(m.err, NoFx)
    ELSE IF m.matched THEN NodeGroupAccept(c.Nodes, p, ord)
    ELSE Ok("", << >>, NoFx)

\* an if that returns nothing, and no error, when a node below it failed
ConditionAcceptSwallowing(c, p, ord) ==
    LET m == Match(c, p) IN
    IF m.err # "" THEN Fail(m.err, NoFx)
    ELSE IF m.matched
    THEN LET r == NodeGroupAccept(c.Nodes, p, ord) IN
         IF r.err # "" THEN Ok("", << >>, r.fx) ELSE r
    ELSE Ok("", << >>, NoFx)

\* ConditionNode.Accept
ConditionAccept(c, p, ord) == ConditionMatched(c, p, ord, Match(c, p))

\* WhereNode.Accept, the loop from child i on
WhereLoop(g, i, builder, args, fx, p, ord) ==
    IF i > Len(g) THEN Ok(builder, args, fx)
    ELSE LET r == Accept(g[i], p, ord) IN
         IF r.err # "" THEN Fail(r.err, Join(fx, r.fx))
         ELSE LET b1 == IF Len(r.query) > 0 THEN builder \o r.query ELSE builder
                  a1 == IF Len(r.args) > 0 THEN args \o r.args ELSE args
                  b2 == IF i < Len(g) /\ Len(r.query) > 0 /\ ~ HasSuffix(r.query, " ")
                        THEN b1 \o " "
                        ELSE b1
              IN  WhereLoop(g, i + 1, b2, a1, Join(fx, r.fx), p, ord)

\* WhereNode.Accept, were it to prepend WHERE to every body that is not empty
WhereShapeAlways(built) == IF built = "" THEN "" ELSE "WHERE " \o TrimSpace(built)

\* WhereNode.Accept, what it makes of the children's query
WhereShape(built) ==
    IF built = "" THEN ""
    ELSE LET q1 == IF HasPrefix(built, "and") \/ HasPrefix(built, "AND")
                   THEN Slice(built, 3, Len(built))
                   ELSE IF HasPrefix(built, "or") \/ HasPrefix(built, "OR")
                   THEN Slice(built, 2, Len(built))
                   ELSE built
             q2 == TrimSpace(q1)
         IN  IF ~ (HasPrefix(q2, "where") \/ HasPrefix(q2, "WHERE"))
             THEN IF ~ HasPrefix(q2, " ") THEN "WHERE " \o q2 ELSE "WHERE" \o q2
             ELSE q2

WhereAccept(w, p, ord) ==
    LET r == WhereLoop(w.Nodes, 1, "", << >>, NoFx, p, ord) IN
    IF r.err # "" THEN r
    ELSE Ok(WhereShape(r.query), r.args, r.fx)

\* TrimNode.Accept, the loop from child i on
TrimLoop(g, i, builder, args, fx, p, ord) ==
    IF i > Len(g) THEN Ok(builder, args, fx)
    ELSE LET r == Accept(g[i], p, ord) IN
         IF r.err # "" THEN Fail(r.err, Join(fx, r.fx))
         ELSE LET b1 == IF Len(r.query) > 0 THEN builder \o r.query ELSE builder
                  b2 == IF ~ HasSuffix(r.query, " ") /\ i < Len(g)
                        THEN b1 \o " "
                        ELSE b1
                  a1 == IF Len(r.args) > 0 THEN args \o r.args ELSE args
                  b3 == IF i < Len(g) /\ Len(r.query) > 0 /\ ~ HasSuffix(r.query, " ")
                        THEN b2 \o " "
                        ELSE b2
              IN  TrimLoop(g, i + 1, b3, a1, Join(fx, r.fx), p, ord)

\* the loops over PrefixOverrides (atPrefix) and SuffixOverrides: the first entry,
\* from entry k on, that the query starts (ends) with is cut off
FirstOverride(query, overrides, k, atPrefix) ==
    IF k > Len(overrides) THEN query
    ELSE IF atPrefix /\ HasPrefix(query, overrides[k])
    THEN TrimPrefix(query, overrides[k])
    ELSE IF ~ atPrefix /\ HasSuffix(query, overrides[k])
    THEN TrimSuffix(query, overrides[k])
    ELSE FirstOverride(query, overrides, k + 1, atPrefix)

\* TrimNode.Accept
TrimAccept(t, p, ord) ==
    LET r == TrimLoop(t.Nodes, 1, IF t.Prefix # "" THEN t.Prefix ELSE "", << >>, NoFx, p, ord)
    IN  IF r.err # "" THEN r
        ELSE LET q1 == IF Len(t.PrefixOverrides) > 0
                       THEN FirstOverride(r.query, t.PrefixOverrides, 1, TRUE)
                       ELSE r.query
                 q2 == IF Len(t.SuffixOverrides) > 0
                       THEN FirstOverride(q1, t.SuffixOverrides, 1, FALSE)
                       ELSE q1
                 q3 == IF t.Suffix # "" THEN q2 \o t.Suffix ELSE q2
             IN  Ok(q3, r.args, r.fx)

\* the children of a ForeachNode for one element, from child j on: their queries
\* are written one after the other
ForeachNodesLoop(nodes, j, builder, args, fx, group, ord) ==
    IF j > Len(nodes) THEN Ok(builder, args, fx)
    ELSE LET r == Accept(nodes[j], group, ord) IN
         IF r.err # "" THEN Fail(r.err, Join(fx, r.fx))
         ELSE LET b1 == IF Len(r.query) > 0 THEN builder \o r.query ELSE builder
                  a1 == IF Len(r.args) > 0 THEN args \o r.args ELSE args
              IN  ForeachNodesLoop(nodes, j + 1, b1, a1, Join(fx, r.fx), group, ord)

\* a SliceLoop that writes the separator after the last element too
SliceLoopEverySeparator(f, value, i, builder, args, fx, p, ord) ==
    IF i > Len(value.elems) THEN Ok(builder \o f.Close, args, fx)
    ELSE LET group == PushScope(p, f.Item, value.elems[i], f.Index, IntV(i - 1))
             r == ForeachNodesLoop(f.Nodes, 1, builder, args, fx, group, ord)
         IN  IF r.err # "" THEN r
             ELSE SliceLoop(f, value, i + 1, r.query \o f.Separator, r.args, r.fx, p, ord)

\* ForeachNode.acceptSlice, the loop from element i (counted from 1) on
SliceLoop(f, value, i, builder, args, fx, p, ord) ==
    IF i > Len(value.elems) THEN Ok(builder \o f.Close, args, fx)
    ELSE LET group == PushScope(p, f.Item, value.elems[i], f.Index, IntV(i - 1))
             r == ForeachNodesLoop(f.Nodes, 1, builder, args, fx, group, ord)
         IN  IF r.err # "" THEN r
             ELSE SliceLoop(f, value, i + 1,
                            IF i < Len(value.elems) THEN r.query \o f.Separator ELSE r.query,
                            r.args, r.fx, p, ord)

\* an acceptSlice without the return on a length of zero
acceptSliceUnchecked(f, value, p, ord) ==
    SliceLoop(f, value, 1, f.Open, << >>, NoFx, p, ord)

\* ForeachNode.acceptSlice
acceptSlice(f, value, p, ord) ==
    IF Len(value.elems) = 0 THEN Ok("", << >>, NoFx)
    ELSE SliceLoop(f, value, 1, f.Open, << >>, NoFx, p, ord)

\* reflect.Value.MapKeys: the keys in an order the runtime chooses; ord is that
\* choice, a permutation of 1..n for an n at least the number of keys
MapKeys(value, ord) == SelectSeq(ord, LAMBDA k : k <= Len(value.keys))

\* ForeachNode.acceptMap, the loop from the index-th key (counted from 1) on
MapLoop(f, value, keys, index, builder, args, fx, p, ord) ==
    IF index > Len(keys) THEN Ok(builder \o f.Close, args, fx)
    ELSE LET key == keys[index]
             group == PushScope(p, f.Item, value.elems[key], f.Index, StrV(value.keys[key]))
             r == ForeachNodesLoop(f.Nodes, 1, builder, args, fx, group, ord)
         IN  IF r.err # "" THEN r
             ELSE MapLoop(f, value, keys, index + 1,
                          IF index < Len(keys) THEN r.query \o f.Separator ELSE r.query,
                          r.args, r.fx, p, ord)

\* ForeachNode.acceptMap
acceptMap(f, value, p, ord) ==
    LET keys == MapKeys(value, ord) IN
    IF Len(keys) = 0 THEN Ok("", << >>, NoFx)
    ELSE MapLoop(f, value, keys, 1, f.Open, << >>, Listed(keys), p, ord)

\* ForeachNode.Accept with the collection that the parameter has
ForeachOver(f, p, ord, value) ==
    IF ~ value.found THEN Fail("collection not found", NoFx)
    ELSE CASE value.value.kind = "slice" -> acceptSlice(f, value.value, p, ord)
           [] value.value.kind = "map" -> acceptMap(f, value.value, p, ord)
           [] OTHER -> Fail("collection is not a slice or map", NoFx)

\* ForeachNode.Accept
ForeachAccept(f, p, ord) ==
    IF Get(p, f.Item).found THEN Fail("item already exists", NoFx)
    ELSE ForeachOver(f, p, ord, Get(p, f.Collection))

\* SetNode.Accept, the loop from child i on
SetLoop(g, i, builder, args, fx, p, ord) ==
    IF i > Len(g) THEN Ok(builder, args, fx)
    ELSE LET r == Accept(g[i], p, ord) IN
         IF r.err # "" THEN Fail(r.err, Join(fx, r.fx))
         ELSE LET b1 == IF Len(r.query) > 0 THEN builder \o r.query ELSE builder
                  a1 == IF Len(r.args) > 0 THEN args \o r.args ELSE args
                  b2 == IF i < Len(g) /\ Len(r.query) > 0 /\ ~ HasSuffix(r.query, " ")
                        THEN b1 \o " "
                        ELSE b1
              IN  SetLoop(g, i + 1, b2, a1, Join(fx, r.fx), p, ord)

RECURSIVE TrimBlanks(_)
\* for strings.HasSuffix(query, " ") { query = strings.TrimSuffix(query, " ") }
TrimBlanks(query) ==
    IF HasSuffix(query, " ") THEN TrimBlanks(TrimSuffix(query, " ")) ELSE query

\* SetNode.Accept
SetAccept(s, p, ord) ==
    LET r == SetLoop(s.Nodes, 1, "", << >>, NoFx, p, ord) IN
    IF r.err # "" THEN r
    ELSE LET q1 == IF r.query # "" THEN "SET " \o r.query ELSE r.query
             q2 == TrimBlanks(q1)
         IN  Ok(TrimSuffix(q2, ","), r.args, r.fx)

\* SQLNode.Accept
SQLNodeAcceptTrimmed(s, p, ord) ==
    [NodeGroupAccept(s.nodes, p, ord) EXCEPT !.query = TrimSpace(@)]

\* SQLNode.Accept
SQLNodeAccept(s, p, ord) == NodeGroupAccept(s.nodes, p, ord)

\* what the include returns: what the fragment returned, the include now linked
IncludeLinked(i, key, r) == [r EXCEPT !.fx = Join(Linked(i.nid, key), @)]

\* IncludeNode.Accept after GetSQLNodeByID has returned g
IncludeResolved(i, p, ord, g) ==
    IF g.err # "" THEN Fail(g.err, NoFx)
    ELSE IncludeLinked(i, g.key, SQLNodeAccept(SqlNodeOf(g.key), p, ord))

\* IncludeNode.Accept: a nil sqlNode is resolved and stored, then the fragment runs
IncludeAccept(i, p, ord) ==
    IF sqlNode[i.nid] = ""
    THEN IncludeResolved(i, p, ord, GetSQLNodeByID(i.mapper, i.refId))
    ELSE SQLNodeAccept(SqlNodeOf(sqlNode[i.nid]), p, ord)

\* ChooseNode.Accept, the loop from the k-th when on
ChooseLoop(c, k, fx, p, ord) ==
    IF k > Len(c.WhenNodes)
    THEN IF c.OtherwiseNode.kind # "nil"
         THEN LET r == Accept(c.OtherwiseNode, p, ord) IN
              [r EXCEPT !.fx = Join(fx, @)]
         ELSE Ok("", << >>, fx)
    ELSE LET r == Accept(c.WhenNodes[k], p, ord) IN
         IF r.err # "" THEN Fail(r.err, Join(fx, r.fx))
         ELSE IF Len(r.query) > 0 THEN Ok(r.query, r.args, Join(fx, r.fx))
         ELSE ChooseLoop(c, k + 1, Join(fx, r.fx), p, ord)

\* ChooseNode.Accept, were it to pass over its first when
ChooseAcceptFromSecond(c, p, ord) == ChooseLoop(c, 2, NoFx, p, ord)

\* ChooseNode.Accept
ChooseAccept(c, p, ord) == ChooseLoop(c, 1, NoFx, p, ord)

\* OtherwiseNode.Accept
OtherwiseAccept(o, p, ord) == NodeGroupAccept(o.Nodes, p, ord)

\* Node.Accept: the method of the node's dynamic type
Accept(node, p, ord) ==
    CASE node.kind = "group" -> NodeGroupAccept(node.Nodes, p, ord)
      [] node.kind = "pure" -> pureTextAccept(node)
      [] node.kind = "text" -> TextAccept(node, p)
      [] node.kind = "if" -> ConditionAccept(node, p, ord)
      [] node.kind = "where" -> WhereAccept(node, p, ord)
      [] node.kind = "trim" -> TrimAccept(node, p, ord)
      [] node.kind = "foreach" -> ForeachAccept(node, p, ord)
      [] node.kind = "set" -> SetAccept(node, p, ord)
      [] node.kind = "sql" -> SQLNodeAccept(node, p, ord)
      [] node.kind = "include" -> IncludeAccept(node, p, ord)
      [] node.kind = "choose" -> ChooseAccept(node, p, ord)
      [] node.kind = "otherwise" -> OtherwiseAccept(node, p, ord)

(***************************************************************************)
(* The statements of the loaded configuration and the parameters           *)
(***************************************************************************)

\* the most elements a collection of a parameter has
MaxElems == 2

Statement(id, nodes) == [id |-> id, Nodes |-> NodeGroup(nodes)]

IdNotZero == Bin("ne", Var("id"), Lit(IntV(0)))

\* a statement that runs leaf below a where, a trim, a set, an if, a choose, a when
\* (or its otherwise), a foreach and an include of a fragment
Deep(id, leaf) ==
    Statement(id,
        << NewTextNode("SELECT 1"),
           WhereNode(<< TrimNode(<< SetNode(<< ConditionNode(IdNotZero,
               << ChooseNode(<< ConditionNode(Bin("gt", Var("id"), Lit(IntV(5))),
                                    << ForeachNode("ids",
                                           << IncludeNode(id, "B", "A.cols"), leaf >>,
                                           "x", "", "(", ")", ",") >>) >>,
                             OtherwiseNode(<< leaf >>)) >>) >>) >>,
               "(", << >>, ")", << >>) >>) >>)

InIds(body) == ForeachNode("ids", body, "x", "", "(", ")", ",")

Statements ==
    << Statement("s1", << NewTextNode("SELECT * FROM users WHERE id = #{id}") >>),
       Statement("s2", << WhereNode(<< ConditionNode(IdNotZero,
                                          << NewTextNode("AND id = #{id}") >>) >>) >>),
       Statement("s4", << NewTextNode("SELECT * FROM t WHERE id IN"),
                          InIds(<< NewTextNode("#{x}") >>) >>),
       Statement("s6", << ChooseNode(
                              << ConditionNode(Bin("gt", Var("a"), Lit(IntV(0))),
                                     << NewTextNode("a = #{a}") >>),
                                 ConditionNode(Bin("gt", Var("b"), Lit(IntV(0))),
                                     << NewTextNode("b = #{b}") >>) >>,
                              OtherwiseNode(<< pureTextNode("X") >>)) >>),
       Statement("s7", << NewTextNode("SELECT"), IncludeNode("i1", "B", "A.cols"),
                          NewTextNode("FROM t") >>),
       Statement("order", << NewTextNode("b = #{ b } AND a = #{a} AND b2 = #{b}"),
                             NewTextNode("AND n = #{u.name}") >>),
       Statement("subst", << NewTextNode("SELECT * FROM ${tbl} WHERE id = #{id}"),
                             IncludeNode("i5", "A", "B.tail") >>),
       Statement("trimWhere",
                 << TrimNode(<< NewTextNode("AND a = 1") >>,
                             "WHERE ", << "AND " >>, "", << >>) >>),
       Statement("trimAnd",
                 << TrimNode(<< NewTextNode("AND a = #{a}") >>,
                             "WHERE ", << "OR ", "AND " >>, "", << >>) >>),
       Statement("trimBare",
                 << TrimNode(<< NewTextNode("AND a = #{a},") >>,
                             "", << "OR ", "AND " >>, "", << ";", "," >>) >>),
       Statement("trimTwo",
                 << TrimNode(<< ConditionNode(IdNotZero, << NewTextNode("id = #{id},") >>),
                                NewTextNode("a = #{a},") >>,
                             "", << >>, " WHERE 1", << "," >>) >>),
       Statement("trimHolder",
                 << NewTextNode("b = #{b} AND"),
                    TrimNode(<< NewTextNode("a = #{a}") >>,
                             "", << >>, "", << "?", ":a" >>) >>),
       Statement("set", << NewTextNode("UPDATE t"),
                           SetNode(<< ConditionNode(IdNotZero, << NewTextNode("a = #{a},") >>),
                                      NewTextNode("b = #{b},") >>),
                           NewTextNode("WHERE id = #{id}") >>),
       Statement("nested", << WhereNode(<< IncludeNode("i3", "B", "A.byId"),
                                           NewTextNode("AND c IN"),
                                           InIds(<< NewTextNode("#{x}") >>) >>) >>),
       Statement("whereLed", << WhereNode(<< NewTextNode("WHERE a = #{a}"),
                                             ConditionNode(IdNotZero,
                                                 << NewTextNode("AND id = #{id}") >>) >>) >>),
       Statement("whereOr", << WhereNode(<< ConditionNode(IdNotZero,
                                                << NewTextNode("or id = #{id}") >>),
                                            NewTextNode("AND b = #{b}"),
                                            ConditionNode(IdNotZero,
                                                << NewTextNode("OR a = #{a}") >>) >>) >>),
       Statement("whereSubst", << WhereNode(<< NewTextNode("and ${col} = #{a}") >>) >>),
       Statement("chooseGuard",
                 << ChooseNode(<< ConditionNode(Bin("gt", Var("a"), Lit(IntV(0))),
                                      << NewTextNode("a = #{a}") >>),
                                  ConditionNode(Var("ids"), << NewTextNode("AND 1") >>) >>,
                               OtherwiseNode(<< NewTextNode("#{nope}") >>)) >>),
       Statement("chooseNone",
                 << ChooseNode(<< ConditionNode(Bin("gt", Var("a"), Lit(IntV(0))),
                                      << ConditionNode(Bin("gt", Var("b"), Lit(IntV(3))),
                                             << NewTextNode("b = #{b}") >>) >>),
                                  ConditionNode(Bin("gt", Var("b"), Lit(IntV(3))),
                                      << NewTextNode("b > 3") >>) >>,
                               NilNode) >>),
       Statement("chooseElse",
                 << ChooseNode(<< ConditionNode(Bin("gt", Var("a"), Lit(IntV(0))),
                                      << ConditionNode(Bin("gt", Var("b"), Lit(IntV(3))),
                                             << NewTextNode("b = #{b}") >>) >>) >>,
                               OtherwiseNode(<< NewTextNode("x = #{b}"),
                                                NewTextNode("AND y = #{a}") >>)) >>),
       Statement("both", << NewTextNode("SELECT"), IncludeNode("i4", "A", "both") >>),
       Statement("onlyInclude", << IncludeNode("i9", "A", "byId") >>),
       Statement("around", << NewTextNode("SELECT 1 WHERE"), IncludeNode("i10", "A", "opt"),
                              NewTextNode("ORDER BY 1") >>),
       Statement("includeLast", << NewTextNode("SELECT 1 WHERE"),
                                   IncludeNode("i11", "B", "A.opt") >>),
       Statement("includeFirst", << IncludeNode("i12", "A", "byId"),
                                    NewTextNode("ORDER BY 1") >>),
       Statement("setOnly",
                 << SetNode(<< ConditionNode(IdNotZero, << NewTextNode("a = #{a},") >>),
                               NewTextNode("b = #{b},"),
                               ConditionNode(IdNotZero, << NewTextNode("c = #{id},") >>) >>) >>),
       Statement("setNone",
                 << SetNode(<< ConditionNode(IdNotZero, << NewTextNode("a = #{a},") >>),
                               ConditionNode(IdNotZero, << NewTextNode("c = #{id}") >>) >>) >>),
       Statement("setSubst",
                 << SetNode(<< NewTextNode("a = #{a},"), NewTextNode("${cols}") >>) >>),
       Statement("eachSome",
                 << ForeachNode("ids",
                                << ConditionNode(Bin("gt", Var("x"), Lit(IntV(10))),
                                                 << NewTextNode("#{x}") >>),
                                   ConditionNode(Bin("gt", Var("i"), Lit(IntV(0))),
                                                 << NewTextNode("/#{i}") >>) >>,
                                "x", "i", "[", "]", ";") >>),
       Statement("unlinked", << NewTextNode("SELECT"), IncludeNode("i6", "A", "nope") >>),
       Statement("eachMap", << ForeachNode("m", << NewTextNode("#{k} = #{v}") >>,
                                           "v", "k", "UPDATE t SET ", ";", ", ") >>),
       Statement("eachIndex", << ForeachNode("ids", << NewTextNode("(#{i}, "),
                                                       NewTextNode("#{x})") >>,
                                             "x", "i", "VALUES ", ";", ",") >>),
       Statement("sameItem", << InIds(<< InIds(<< NewTextNode("#{x}") >>) >>) >>),
       Statement("indexBound", << ForeachNode("ids", << NewTextNode("#{a} = #{x}") >>,
                                              "x", "a", "(", ")", ",") >>),
       Statement("itemBound", << ForeachNode("ids", << NewTextNode("#{a}") >>,
                                             "a", "", "(", ")", ",") >>),
       Statement("missing", << InIds(<< NewTextNode("#{x}"), NewTextNode("#{nope}") >>) >>),
       Statement("notIterable", << ForeachNode("id", << NewTextNode("#{x}") >>,
                                               "x", "", "(", ")", ",") >>),
       Statement("noCollection", << ForeachNode("nope", << NewTextNode("#{x}") >>,
                                                "x", "", "(", ")", ",") >>),
       Statement("badTest", << NewTextNode("SELECT 1"),
                               ConditionNode(Var("ids"), << NewTextNode("AND 1") >>) >>),
       Deep("deep1", NewTextNode("${nope}")),
       Deep("deep2", NewTextNode("c = #{nope}")),
       Deep("deep3", IncludeNode("i8", "B", "nope")),
       Deep("deep4", ForeachNode("nope", << NewTextNode("#{y}") >>, "y", "", "", "", "")),
       Deep("deep5", ForeachNode("id", << NewTextNode("#{y}") >>, "y", "", "", "", "")),
       Deep("deep6", ForeachNode("ids", << NewTextNode("#{x}") >>, "x", "", "", "", "")),
       Deep("deep7", ConditionNode(Var("ids"), << NewTextNode("AND 1") >>)),
       Deep("deep8", ConditionNode(Bin("gt", Var("nope"), Lit(IntV(0))),
                                   << NewTextNode("AND 1") >>)) >>

StatementIds == { Statements[i].id : i \in 1..Len(Statements) }

StatementOf(statements, id) ==
    statements[CHOOSE i \in 1..Len(statements) : statements[i].id = id]

\* Mappers.GetStatementByID
GetStatementByID(id) == StatementOf(Statements, id)

\* a collection of n elements: the slice 10, 20, ... and the map k1: 100, k2: 200, ...
Ids(n) == SliceV([i \in 1..n |-> IntV(10 * i)])

Table(n) == MapV([i \in 1..n |-> "k" \o ToString(i)], [i \in 1..n |-> IntV(100 * i)])

\* the parameters of the renders
Params ==
    UNION { { << [id |-> IntV(3), a |-> IntV(1), b |-> IntV(2), tbl |-> StrV("t"),
                  col |-> StrV("name"), cols |-> StrV("b = 2,"),
                  u |-> MapV(<< "name" >>, << StrV("bob") >>),
                  ids |-> Ids(n), m |-> Table(n)] >>,
              << [id |-> IntV(0), a |-> IntV(0), b |-> IntV(5), tbl |-> StrV("t"),
                  col |-> StrV("id"), cols |-> StrV("b = 2,\n"),
                  u |-> MapV(<< "name" >>, << StrV("") >>),
                  ids |-> Ids(n), m |-> Table(n)] >>,
              << [id |-> IntV(7), ids |-> Ids(n), m |-> Table(n)] >> }
            : n \in 0..MaxElems }

\* the orders MapKeys can list keys in
KeyOrders ==
    { o \in [1..MaxElems -> 1..MaxElems] : \A i, j \in 1..MaxElems : o[i] = o[j] => i = j }

\* no render yet
NoResult == [query |-> "", args |-> << >>, err |-> "no render", raised |-> ""]

\* what the caller of a render gets, and the first error a node of the render returned
Returned(r) == [query |-> r.query, args |-> r.args, err |-> r.err, raised |-> r.fx.raised]

(***************************************************************************)
(* The nodes below a node                                                  *)
(***************************************************************************)

RECURSIVE Flatten(_)
RECURSIVE FlattenFrom(_, _)

\* the nodes a node runs: its children, and for an include the fragment it names
Children(node) ==
    CASE node.kind \in {"group", "if", "where", "trim", "foreach", "set", "otherwise"} ->
            node.Nodes
      [] node.kind = "sql" -> node.nodes
      [] node.kind = "choose" ->
            node.WhenNodes \o
                (IF node.OtherwiseNode.kind = "nil" THEN << >> ELSE << node.OtherwiseNode >>)
      [] node.kind = "include" ->
            LET g == GetSQLNodeByID(node.mapper, node.refId) IN
            IF g.err = "" THEN << SqlNodeOf(g.key) >> ELSE << >>
      [] OTHER -> << >>

\* a node and all nodes below it, in document order
Flatten(node) == << node >> \o FlattenFrom(Children(node), 1)

FlattenFrom(nodes, i) ==
    IF i > Len(nodes) THEN << >> ELSE Flatten(nodes[i]) \o FlattenFrom(nodes, i + 1)

OfKind(nodes, kind) == SelectSeq(nodes, LAMBDA n : n.kind = kind)

(***************************************************************************)
(* The renderer as a state machine                                         *)
(***************************************************************************)

Init ==
    /\ LoadIdle /\ IncludeIdle /\ ConcIdle
    /\ sqlNode = [i \in IncludeIds |-> ""]
    /\ dialect \in {"positional", "named"}
    /\ param \in Params
    /\ stmt = ""
    /\ keyOrder = << >>
    /\ result = NoResult
    /\ prev = NoResult

\* one render of statement id: the statement's nodes accept the parameter; the
\* IncludeNodes that ran keep the fragment they resolved.  A behaviour renders one
\* statement of the configuration again and again.
Render(id, ord) ==
    LET r == Accept(GetStatementByID(id).Nodes, param, ord) IN
    /\ result' = Returned(r)
    /\ stmt \in {"", id}
    /\ sqlNode' = [i \in IncludeIds |->
                     IF \E l \in r.fx.links : l[1] = i
                     THEN (CHOOSE l \in r.fx.links : l[1] = i)[2]
                     ELSE sqlNode[i]]
    /\ stmt' = id
    /\ keyOrder' = r.fx.keys
    /\ prev' = IF stmt = id THEN result ELSE NoResult
    /\ UNCHANGED << dialect, param, loadVars, includeVars, concVars >>

\* the orders the runtime can choose from in a render of the statement: the choice
\* is made where a foreach lists the keys of a map, and nowhere else
KeyOrdersOf(id) ==
    IF LET fs == OfKind(Flatten(GetStatementByID(id).Nodes), "foreach") IN
       \E k \in 1..Len(fs) :
           /\ Get(param, fs[k].Collection).found
           /\ Get(param, fs[k].Collection).value.kind = "map"
    THEN KeyOrders
    ELSE { [i \in 1..MaxElems |-> i] }

Next == \E id \in StatementIds : \E ord \in KeyOrdersOf(id) : Render(id, ord)

Spec == Init /\ [][Next]_vars

(***************************************************************************)
(* The statements, for the properties below                                *)
(***************************************************************************)

\* the statement rendered last, as a node
Root == GetStatementByID(stmt).Nodes

\* the only node of that statement, when it has one node
Only == Root.Nodes[1]

Chars(str) == { CharAt(str, i) : i \in 1..Len(str) }

\* a render of the statement rendered last has returned without error
Rendered == stmt # "" /\ result.err = ""

(***************************************************************************)
(* C1  placeholders and arguments                                          *)
(***************************************************************************)

RECURSIVE NamedTokens(_, _)
\* the names of the placeholder tokens :name of a query, left to right
NamedTokens(q, i) ==
    IF i > Len(q) THEN << >>
    ELSE IF CharAt(q, i) = ":"
    THEN << SubSeq(q, i + 1, SkipName(q, i + 1) - 1) >> \o NamedTokens(q, SkipName(q, i + 1))
    ELSE NamedTokens(q, i + 1)

\* the elements a foreach runs over, in the order it ran: the slice in its order,
\* the map in the order MapKeys listed it
Iterations(f) ==
    LET c == Get(param, f.Collection).value IN
    IF c.kind = "slice"
    THEN [j \in 1..Len(c.elems) |-> [item |-> c.elems[j], index |-> IntV(j - 1)]]
    ELSE [j \in 1..Len(keyOrder) |->
            [item |-> c.elems[keyOrder[j]], index |-> StrV(c.keys[keyOrder[j]])]]

\* the value bound to the i-th of the placeholders names: a name that a foreach of
\* the statement binds as its item or index has the value of the iteration the
\* placeholder was written in (no foreach of the statements runs inside another
\* one), any other name has its value in the parameter
BoundValue(names, i) ==
    LET name == names[i]
        binders == SelectSeq(OfKind(Flatten(Root), "foreach"),
                             LAMBDA f : f.Item = name \/ f.Index = name)
        rank == Cardinality({ j \in 1..(i - 1) : names[j] = name })
        total == Cardinality({ j \in 1..Len(names) : names[j] = name })
    IN  IF Len(binders) = 0 THEN Get(param, name).value
        ELSE LET f == binders[1]
                 its == Iterations(f)
                 it == its[(rank \div (total \div Len(its))) + 1]
             IN  IF f.Index = name THEN it.index ELSE it.item

\* the query holds as many placeholder tokens as there are arguments, and the i-th
\* argument is the value bound to the i-th token (the named driver's tokens tell
\* which parameter each stands for)
Corresponds ==
    IF dialect = "named"
    THEN LET names == NamedTokens(result.query, 1) IN
         /\ Len(names) = Len(result.args)
         /\ \A i \in 1..Len(names) : result.args[i] = BoundValue(names, i)
    ELSE Count(result.query, "?") = Len(result.args)

RECURSIVE NamesFrom(_, _)
\* the parameter names of the placeholders of the text nodes among nodes
NamesFrom(nodes, i) ==
    IF i > Len(nodes) THEN {}
    ELSE (IF nodes[i].kind = "text"
          THEN { nodes[i].placeholder[k][2] : k \in 1..Len(nodes[i].placeholder) }
          ELSE {}) \cup NamesFrom(nodes, i + 1)

RECURSIVE OverridesFrom(_, _)
\* the prefix and suffix overrides of the trim nodes among nodes
OverridesFrom(nodes, i) ==
    IF i > Len(nodes) THEN {}
    ELSE (IF nodes[i].kind = "trim"
          THEN { nodes[i].PrefixOverrides[k] : k \in 1..Len(nodes[i].PrefixOverrides) }
               \cup { nodes[i].SuffixOverrides[k] : k \in 1..Len(nodes[i].SuffixOverrides) }
          ELSE {}) \cup OverridesFrom(nodes, i + 1)

\* no override of a trim of the statement holds a character of a placeholder token
\* of the statement
OverridesSparePlaceholders ==
    \A o \in OverridesFrom(Flatten(Root), 1) :
        \A name \in NamesFrom(Flatten(Root), 1) :
            Chars(o) \cap Chars(Translate(name)) = {}

\* C1 as claimed: for every statement tree and every parameter for which the render
\* succeeds, the final SQL holds as many placeholder tokens as there are arguments
\* and the i-th argument is the value bound to the i-th placeholder
C1_PlaceholdersMatchArgs == Rendered => Corresponds

\* the correspondence of C1 on the statement trees in which no override of a trim
\* holds a character of a placeholder token
PlaceholdersMatchArgsUnlessTrimmed ==
    (Rendered /\ OverridesSparePlaceholders) => Corresponds

(***************************************************************************)
(* C2  determinism                                                         *)
(***************************************************************************)

\* C2: with the configuration and the parameter unchanged, two renders of the same
\* statement return the identical SQL string and the identical argument list (prev
\* is the render of the same statement before the last one)
C2_RepeatedRendersAgree ==
    (stmt # "" /\ prev # NoResult) =>
        (prev.query = result.query /\ prev.args = result.args /\ prev.err = result.err)

(***************************************************************************)
(* C3  the composition rule                                                *)
(***************************************************************************)

RECURSIVE ComposeFrom(_, _, _)
\* the composition rule: the fragments from the i-th on appended to acc, empty ones
\* left out, with one space before a fragment unless acc is empty or ends in
\* whitespace
ComposeFrom(frags, i, acc) ==
    IF i > Len(frags) THEN acc
    ELSE IF frags[i] = "" THEN ComposeFrom(frags, i + 1, acc)
    ELSE ComposeFrom(frags, i + 1,
                     IF acc = "" \/ IsSpace(CharAt(acc, Len(acc)))
                     THEN acc \o frags[i]
                     ELSE acc \o " " \o frags[i])

\* what the nodes rendered in the last render, one fragment a node
Fragments(nodes) == [i \in 1..Len(nodes) |-> Accept(nodes[i], param, keyOrder).query]

\* C3: the output of a statement's group is its children's fragments concatenated
\* left to right, with exactly one space only between two non-empty fragments
\* whose left one does not end in whitespace; an empty child adds no character
C3_CompositionRule ==
    Rendered => result.query = ComposeFrom(Fragments(Root.Nodes), 1, "")

(***************************************************************************)
(* C4  trim                                                                *)
(***************************************************************************)

\* the trim of C4: the body composed from the children, the first matching prefix
\* override cut off, then the first matching suffix override, then the prefix and
\* the suffix added
TrimByRule(t) ==
    LET body == ComposeFrom(Fragments(t.Nodes), 1, "")
        cut == FirstOverride(FirstOverride(body, t.PrefixOverrides, 1, TRUE),
                             t.SuffixOverrides, 1, FALSE)
    IN  t.Prefix \o cut \o t.Suffix

\* C4: a statement that is one trim renders the body with the overrides cut off
\* before the prefix and the suffix are added, so "AND a = 1" under the prefix
\* "WHERE " and the prefix override "AND " renders "WHERE a = 1"
C4_OverridesBeforePrefix ==
    (Rendered /\ Len(Root.Nodes) = 1 /\ Only.kind = "trim") =>
        /\ result.query = TrimByRule(Only)
        /\ stmt = "trimWhere" => result.query = "WHERE a = 1"

(***************************************************************************)
(* C11  where                                                              *)
(***************************************************************************)

RECURSIVE ArgsFrom(_, _)
\* the arguments the nodes from the i-th on returned in the last render, in order
ArgsFrom(nodes, i) ==
    IF i > Len(nodes) THEN << >>
    ELSE Accept(nodes[i], param, keyOrder).args \o ArgsFrom(nodes, i + 1)

\* body without a leading and/AND (three characters) or or/OR (two characters)
Unled(body) ==
    IF HasPrefix(body, "and") \/ HasPrefix(body, "AND") THEN Slice(body, 3, Len(body))
    ELSE IF HasPrefix(body, "or") \/ HasPrefix(body, "OR") THEN Slice(body, 2, Len(body))
    ELSE body

\* the where of C11 on the composed output of the children
WhereByRule(body) ==
    IF body = "" THEN ""
    ELSE IF HasPrefix(TrimLeftSpace(Unled(body)), "where")
            \/ HasPrefix(TrimLeftSpace(Unled(body)), "WHERE")
    THEN TrimLeftSpace(Unled(body))
    ELSE "WHERE " \o TrimLeftSpace(Unled(body))

SetByRule(body) ==
    IF body = "" THEN "" ELSE TrimSuffix(TrimRightSpace("SET " \o body), ",")

\* C18: a statement that is one set renders nothing when its children render
\* nothing; else "SET " and the children's output composed, without the whitespace
\* at the end and then without one comma at the end; the arguments are the
\* children's in order
C18_SetShapesItsBody ==
    (Rendered /\ Len(Root.Nodes) = 1 /\ Only.kind = "set") =>
        /\ result.query = SetByRule(ComposeFrom(Fragments(Only.Nodes), 1, ""))
        /\ result.args = ArgsFrom(Only.Nodes, 1)

\* the same when the children's output ends in no whitespace but blanks
SetOfBlankEnded ==
    (Rendered /\ Len(Root.Nodes) = 1 /\ Only.kind = "set"
        /\ TrimBlanks(ComposeFrom(Fragments(Only.Nodes), 1, ""))
               = TrimRightSpace(ComposeFrom(Fragments(Only.Nodes), 1, ""))) =>
        /\ result.query = SetByRule(ComposeFrom(Fragments(Only.Nodes), 1, ""))
        /\ result.args = ArgsFrom(Only.Nodes, 1)

\* a set has rendered three assignments and lost the last comma
SetRendered ==
    /\ Rendered /\ stmt = "setOnly" /\ dialect = "positional"
    /\ result.query = "SET a = ?, b = ?, c = ?"
    /\ result.args = << IntV(1), IntV(2), IntV(3) >>

\* a set whose children render nothing has rendered nothing
SetRenderedNothing ==
    Rendered /\ stmt = "setNone" /\ result.query = "" /\ result.args = << >>

(***************************************************************************)
(* C12  choose                                                             *)
(***************************************************************************)

\* what the k-th when of the only node returns
When(k) == Accept(Only.WhenNodes[k], param, keyOrder)

\* the k-th when is the first that renders a text: those before it have returned
\* the empty text and no error
FirstNonEmpty(k) ==
    /\ When(k).err = "" /\ When(k).query # ""
    /\ \A j \in 1..(k - 1) : When(j).err = "" /\ When(j).query = ""

ChooseFallsThrough ==
    \/ stmt = "chooseElse" /\ dialect = "positional" /\ result.query = "x = ? AND y = ?"
    \/ stmt = "chooseNone" /\ Get(param, "a").found /\ Get(param, "a").value.n = 1
          /\ result.err = "" /\ result.query = ""

(***************************************************************************)
(* C13  include and inline                                                 *)
(***************************************************************************)

RECURSIVE InlineFrom(_, _)
\* the nodes from the i-th on, with the nodes of its fragment in the place of every
\* include whose fragment exists
InlineFrom(nodes, i) ==
    IF i > Len(nodes) THEN << >>
    ELSE (IF nodes[i].kind = "include"
             /\ GetSQLNodeByID(nodes[i].mapper, nodes[i].refId).err = ""
          THEN SqlNodeOf(GetSQLNodeByID(nodes[i].mapper, nodes[i].refId).key).nodes
          ELSE << nodes[i] >>)
         \o InlineFrom(nodes, i + 1)

\* the statement rendered last has an include of a fragment among its nodes
HasInclude ==
    /\ stmt # ""
    /\ \E i \in 1..Len(Root.Nodes) :
           /\ Root.Nodes[i].kind = "include"
           /\ GetSQLNodeByID(Root.Nodes[i].mapper, Root.Nodes[i].refId).err = ""

\* what the statement with the fragments written inline returns
InlineResult == NodeGroupAccept(InlineFrom(Root.Nodes, 1), param, keyOrder)

\* C13: a statement with an include among its nodes, alone or with nodes before and
\* after it, returns the SQL, the arguments and the error of the statement that has
\* the nodes of the fragment in the place of the include
C13_IncludeIsTransparent ==
    HasInclude =>
        /\ result.query = InlineResult.query
        /\ result.args = InlineResult.args
        /\ result.err = InlineResult.err

\* an include that is the last node, of a fragment whose last node rendered
\* nothing, has been rendered like the inline nodes
C13_Witness ==
    /\ stmt = "includeLast" /\ dialect = "positional" /\ HasInclude
    /\ Get(param, "id").value.n = 0
    /\ result.query = "SELECT 1 WHERE a = ? "
    /\ result.args = << IntV(0) >>

(***************************************************************************)
(* C8  errors                                                              *)
(***************************************************************************)

\* C8: when a node that a render evaluates fails, the render returns that error
\* with the empty SQL string and no arguments, whatever containers lie between the
\* node and the root (raised is the first error a node of the render returned)
C8_ErrorsAbortWithoutOutput ==
    (stmt # "" /\ result.raised # "") =>
        (result.err = result.raised /\ result.query = "" /\ result.args = << >>)

\* every kind of failure of C8 has happened below a where, a trim, a set, an if, a
\* choose, a foreach and a group: the leaf of this statement is an include whose
\* refid does not resolve
C8_Witness ==
    /\ stmt = "deep3"
    /\ Get(param, "id").value.n = 7
    /\ Len(Get(param, "ids").value.elems) > 0
    /\ result.raised = "sql node not found"
    /\ result.err = result.raised

(***************************************************************************)
(* C9  the names a foreach binds                                           *)
(***************************************************************************)

\* C9: a statement that is one foreach fails when the item name of the foreach is
\* defined in the parameter, and also when its index name is set and defined in
\* the parameter
C9_BindingNamesAreFresh ==
    (/\ stmt # "" /\ Len(Root.Nodes) = 1 /\ Only.kind = "foreach"
     /\ \/ Get(param, Only.Item).found
        \/ Only.Index # "" /\ Get(param, Only.Index).found)
    => result.err # ""

(***************************************************************************)
(* C10  the empty foreach                                                  *)
(***************************************************************************)

\* the collection of foreach f is in the parameter and has no element
EmptyCollection(f) ==
    /\ Get(param, f.Collection).found
    /\ Get(param, f.Collection).value.kind \in {"slice", "map"}
    /\ Len(Get(param, f.Collection).value.elems) = 0

\* C10: a statement that is one foreach over an empty slice or an empty map renders
\* the empty string and no arguments, whatever its open, close and separator, and
\* none of its children has run (a child of it that ran would have raised its
\* error); the only error is the one of an item name that is already bound
C10_EmptyForeachCollapses ==
    (stmt # "" /\ Len(Root.Nodes) = 1 /\ Only.kind = "foreach" /\ EmptyCollection(Only))
    => /\ result.query = "" /\ result.args = << >>
       /\ result.raised \in {"", "item already exists"}
       /\ result.err = result.raised

\* a foreach with open and close whose second child fails when it runs has rendered
\* an empty slice
C10_Witness ==
    /\ stmt = "missing" /\ EmptyCollection(Only)
    /\ Only.Open = "(" /\ Only.Close = ")"
    /\ result.err = "" /\ result.query = ""

(***************************************************************************)
(* C19  foreach over a sequence                                            *)
(***************************************************************************)

\* the elements of the collection of foreach f
Elements(f) == Get(param, f.Collection).value.elems

\* the collection of foreach f is in the parameter and is a sequence with an element
Sequence(f) ==
    /\ Get(param, f.Collection).found
    /\ Get(param, f.Collection).value.kind = "slice"
    /\ Len(Elements(f)) > 0

\* the scope of element i (counted from 1) of foreach f: the item is the element
\* and the index is i - 1, in front of the parameter
ElementScope(f, i) ==
    << (f.Item :> Elements(f)[i]) @@ (f.Index :> IntV(i - 1)) >> \o param

RECURSIVE BodyFrom(_, _, _)
\* what the nodes from the j-th on render in the scope, one after the other
BodyFrom(nodes, j, scope) ==
    IF j > Len(nodes) THEN ""
    ELSE Accept(nodes[j], scope, keyOrder).query \o BodyFrom(nodes, j + 1, scope)

RECURSIVE BodyArgsFrom(_, _, _)
\* the arguments of the nodes from the j-th on in the scope
BodyArgsFrom(nodes, j, scope) ==
    IF j > Len(nodes) THEN << >>
    ELSE Accept(nodes[j], scope, keyOrder).args \o BodyArgsFrom(nodes, j + 1, scope)

RECURSIVE Separated(_, _)
\* the bodies of foreach f from element i on, with the separator between two of them
Separated(f, i) ==
    IF i > Len(Elements(f)) THEN ""
    ELSE IF i = Len(Elements(f)) THEN BodyFrom(f.Nodes, 1, ElementScope(f, i))
    ELSE BodyFrom(f.Nodes, 1, ElementScope(f, i)) \o f.Separator \o Separated(f, i + 1)

RECURSIVE ElementArgs(_, _)
\* the arguments of the bodies of foreach f from element i on
ElementArgs(f, i) ==
    IF i > Len(Elements(f)) THEN << >>
    ELSE BodyArgsFrom(f.Nodes, 1, ElementScope(f, i)) \o ElementArgs(f, i + 1)

\* C19: a statement that is one foreach over a sequence of n > 0 elements renders
\* open, the n bodies with the separator between two of them (n - 1 separators,
\* also next to an empty body) and close; a body is what the children render, one
\* after the other, in a scope where the item name is the element and the index
\* name is its position counted from 0, both in front of the parameter's names; the
\* arguments are those of the bodies in element order
C19_SequenceForeach ==
    (Rendered /\ Len(Root.Nodes) = 1 /\ Only.kind = "foreach" /\ Sequence(Only)) =>
        /\ result.query = Only.Open \o Separated(Only, 1) \o Only.Close
        /\ result.args = ElementArgs(Only, 1)

\* a foreach over two elements has rendered an empty first body and the separator
\* after it, with the index of the second element as an argument
C19_Witness ==
    /\ Rendered /\ stmt = "eachSome" /\ dialect = "positional"
    /\ Len(Elements(Only)) = 2
    /\ result.query = "[;?/?]"
    /\ result.args = << IntV(20), IntV(1) >>

\* the index name of a foreach has hidden the parameter's name a
IndexShadows ==
    /\ Rendered /\ stmt = "indexBound" /\ dialect = "positional"
    /\ Get(param, "a").found /\ Len(Elements(Only)) = 2
    /\ result.query = "(? = ?,? = ?)"
    /\ result.args = << IntV(0), IntV(10), IntV(1), IntV(20) >>

(***************************************************************************)
(* The XML loader: tokens                                                  *)
(***************************************************************************)

\* xml.StartElement, xml.EndElement, xml.CharData; Attr is a sequence of
\* << name, value >>
StartElement(name, attr) == [type |-> "StartElement", Local |-> name, Attr |-> attr, text |-> ""]
EndElement(name) == [type |-> "EndElement", Local |-> name, Attr |-> << >>, text |-> ""]
CharData(text) == [type |-> "CharData", Local |-> "", Attr |-> << >>, text |-> text]
EOF == [type |-> "EOF", Local |-> "", Attr |-> << >>, text |-> ""]

\* decoder.Token() on a decoder that has handed out at tokens of d: the next token,
\* io.EOF after the last one (the documents are well-formed, so that the decoder
\* returns no other error)
Token(d, at0) == IF at0 < Len(d) THEN d[at0 + 1] ELSE EOF

RECURSIVE AttrFrom(_, _, _)
\* the value of the last attribute of that name, "" when there is none
AttrFrom(attr, name, k) ==
    IF k = 0 THEN ""
    ELSE IF attr[k][1] = name THEN attr[k][2]
    ELSE AttrFrom(attr, name, k - 1)

\* setAttribute for every attribute of the token, then Attribute(name)
Attribute(token, name) == AttrFrom(token.Attr, name, Len(token.Attr))

(***************************************************************************)
(* The XML loader: statement bodies                                        *)
(***************************************************************************)

RECURSIVE parseTags(_, _, _, _)
RECURSIVE bodyLoop(_, _, _, _, _, _)
RECURSIVE bodyAfterTag(_, _, _, _, _, _)
RECURSIVE parseIncludeLoop(_, _)

\* what a parse function returns: the node, the decoder's position, the error
Parsed(node, at0, err) == [node |-> node, at |-> at0, err |-> err]

\* the token loop of parseSet, parseIf, parseWhere, parseTrim, parseForeach,
\* parseSQLNode and parseStatement: a start element is parsed by parseTags, character
\* data that is not blank becomes a TextNode of the trimmed text (where the loop has
\* a CharData case), and the end element named end ends the loop; strict is the
\* loop of parseStatement, where another end element is an error.  The result is
\* [nodes, at, err, eof].
bodyLoop(mapper, d, at0, nodes, end, cases) ==
    LET token == Token(d, at0) IN
    CASE token.type = "EOF" ->
            [nodes |-> nodes, at |-> at0, err |-> "", eof |-> TRUE]
      [] token.type = "StartElement" ->
            bodyAfterTag(mapper, d, nodes, end, cases,
                         parseTags(mapper, d, at0 + 1, token))
      [] token.type = "CharData" ->
            IF cases.CharData /\ TrimSpace(token.text) # ""
            THEN bodyLoop(mapper, d, at0 + 1,
                          Append(nodes, [kind |-> "text", value |-> TrimSpace(token.text)]),
                          end, cases)
            ELSE bodyLoop(mapper, d, at0 + 1, nodes, end, cases)
      [] token.type = "EndElement" ->
            IF token.Local = end
            THEN [nodes |-> nodes, at |-> at0 + 1, err |-> "", eof |-> FALSE]
            ELSE IF cases.strict
            THEN [nodes |-> << >>, at |-> at0 + 1, err |-> "unexpected end element",
                  eof |-> FALSE]
            ELSE bodyLoop(mapper, d, at0 + 1, nodes, end, cases)

\* the loop after parseTags has returned r
bodyAfterTag(mapper, d, nodes, end, cases, r) ==
    IF r.err # ""
    THEN [nodes |-> << >>, at |-> r.at, err |-> r.err, eof |-> FALSE]
    ELSE bodyLoop(mapper, d, r.at, Append(nodes, r.node), end, cases)

WithCharData == [CharData |-> TRUE, strict |-> FALSE]
WithoutCharData == [CharData |-> FALSE, strict |-> FALSE]
Strict == [CharData |-> TRUE, strict |-> TRUE]

\* the expressions IfNode.init compiles without an error
Expressions == {"id != 0", "id > 0"}

\* XMLParser.parseInclude, the loop
parseIncludeLoop(d, at0) ==
    LET token == Token(d, at0) IN
    IF token.type = "EOF" THEN at0
    ELSE IF token.type = "EndElement" /\ token.Local = "include" THEN at0 + 1
    ELSE parseIncludeLoop(d, at0 + 1)

\* XMLParser.parseInclude
parseInclude(mapper, d, at0, token) ==
    IF Attribute(token, "refid") = ""
    THEN Parsed(NilNode, at0, "include ref is required")
    ELSE Parsed([kind |-> "include", RefId |-> Attribute(token, "refid"), mapper |-> mapper],
                parseIncludeLoop(d, at0), "")

\* what parseSet returns when its loop has ended as r
setNodeOf(r) ==
    IF r.err # "" THEN Parsed(NilNode, r.at, r.err)
    ELSE IF r.eof THEN Parsed(NilNode, r.at, "")
    ELSE Parsed([kind |-> "set", Nodes |-> r.nodes], r.at, "")

\* XMLParser.parseSet: at the end of the tokens it returns nil, nil
parseSet(mapper, d, at0, token) ==
    setNodeOf(bodyLoop(mapper, d, at0, << >>, "set", WithCharData))

\* what parseIf returns when its loop has ended as r
ifNodeOf(token, r) ==
    IF r.err # "" THEN Parsed(NilNode, r.at, r.err)
    ELSE Parsed([kind |-> "if", Test |-> Attribute(token, "test"), Nodes |-> r.nodes],
                r.at, "")

\* XMLParser.parseIf
parseIf(mapper, d, at0, token) ==
    IF Attribute(token, "test") = "" THEN Parsed(NilNode, at0, "test is required")
    ELSE IF Attribute(token, "test") \notin Expressions
    THEN Parsed(NilNode, at0, "syntax error")
    ELSE ifNodeOf(token, bodyLoop(mapper, d, at0, << >>, "if", WithCharData))

\* what parseWhere returns when its loop has ended as r
whereNodeOf(r) ==
    IF r.err # "" THEN Parsed(NilNode, r.at, r.err)
    ELSE Parsed([kind |-> "where", Nodes |-> r.nodes], r.at, "")

\* XMLParser.parseWhere
parseWhere(mapper, d, at0) ==
    whereNodeOf(bodyLoop(mapper, d, at0, << >>, "where", WithCharData))

\* what parseTrim returns when its loop has ended as r
trimNodeOf(token, r) ==
    IF r.err # "" THEN Parsed(NilNode, r.at, r.err)
    ELSE Parsed([kind |-> "trim", Nodes |-> r.nodes,
                 Prefix |-> Attribute(token, "prefix"),
                 PrefixOverrides |-> Attribute(token, "prefixOverrides"),
                 Suffix |-> Attribute(token, "suffix"),
                 SuffixOverrides |-> Attribute(token, "suffixOverrides")], r.at, "")

\* XMLParser.parseTrim: its loop has no case for character data
parseTrim(mapper, d, at0, token) ==
    trimNodeOf(token, bodyLoop(mapper, d, at0, << >>, "trim", WithoutCharData))

defaultParamKey == "param"

\* what parseForeach returns when its loop has ended as r
foreachNodeOf(token, r) ==
    IF r.err # "" THEN Parsed(NilNode, r.at, r.err)
    ELSE Parsed([kind |-> "foreach", Nodes |-> r.nodes,
                 Collection |-> IF Attribute(token, "collection") = ""
                                THEN defaultParamKey
                                ELSE Attribute(token, "collection"),
                 Item |-> Attribute(token, "item"),
                 Index |-> Attribute(token, "index"),
                 Open |-> Attribute(token, "open"),
                 Close |-> Attribute(token, "close"),
                 Separator |-> Attribute(token, "separator")], r.at, "")

\* XMLParser.parseForeach
parseForeach(mapper, d, at0, token) ==
    IF Attribute(token, "item") = "" THEN Parsed(NilNode, at0, "item is required")
    ELSE foreachNodeOf(token, bodyLoop(mapper, d, at0, << >>, "foreach", WithCharData))

\* XMLParser.parseTags, called with the decoder behind the start element token
parseTags(mapper, d, at0, token) ==
    CASE token.Local = "if" -> parseIf(mapper, d, at0, token)
      [] token.Local = "where" -> parseWhere(mapper, d, at0)
      [] token.Local = "trim" -> parseTrim(mapper, d, at0, token)
      [] token.Local = "foreach" -> parseForeach(mapper, d, at0, token)
      [] token.Local = "set" -> parseSet(mapper, d, at0, token)
      [] token.Local = "include" -> parseInclude(mapper, d, at0, token)
      [] OTHER -> Parsed(NilNode, at0, "unknown tag")

\* what parseStatement returns when its loop has ended as r
statementOf(action, mapper, token, r) ==
    IF r.err # "" THEN [stmt |-> << >>, at |-> r.at, err |-> r.err]
    ELSE [stmt |-> [action |-> action, id |-> Attribute(token, "id"),
                    mapper |-> mapper, Nodes |-> r.nodes],
          at |-> r.at, err |-> ""]

\* XMLParser.parseStatement: the statement, or the error
parseStatement(action, mapper, d, at0, token) ==
    IF Attribute(token, "id") = ""
    THEN [stmt |-> << >>, at |-> at0, err |-> "statement id is required"]
    ELSE statementOf(action, mapper, token,
                     bodyLoop(mapper, d, at0, << >>, action, Strict))

\* what parseSQLNode returns when its loop has ended as r
sqlNodeOf(mapper, token, r) ==
    IF r.err # "" THEN [sqlNode |-> << >>, at |-> r.at, err |-> r.err]
    ELSE [sqlNode |-> [id |-> Attribute(token, "id"), mapper |-> mapper,
                       nodes |-> r.nodes],
          at |-> r.at, err |-> ""]

\* XMLParser.parseSQLNode: the sql node, or the error
parseSQLNode(mapper, d, at0, token) ==
    IF Attribute(token, "id") = ""
    THEN [sqlNode |-> << >>, at |-> at0, err |-> "id is required"]
    ELSE sqlNodeOf(mapper, token, bodyLoop(mapper, d, at0, << >>, "sql", WithCharData))

(***************************************************************************)
(* The XML loader: mappers                                                 *)
(***************************************************************************)

RECURSIVE parseMapper(_, _, _, _)
RECURSIVE mapperLoop(_, _, _, _)
RECURSIVE readerLoop(_, _, _, _)
RECURSIVE withStatement(_, _, _, _)
RECURSIVE withSQLNode(_, _, _, _)
RECURSIVE readerAfter(_, _, _)

\* a *Mapper: nil, or the namespace, the statements by key and the sql nodes by id
NilMapper == [nil |-> TRUE, namespace |-> "", statements |-> << >>, sqlNodes |-> << >>]

NewMapper(namespace) ==
    [nil |-> FALSE, namespace |-> namespace, statements |-> << >>, sqlNodes |-> << >>]

\* what parseMapper returns: the mapper, the decoder's position, the error
ParsedMapper(mapper, at0, err) == [mapper |-> mapper, at |-> at0, err |-> err]

\* Statement.Key: the namespace of the statement's mapper, a dot, the statement's id
Key(statement) == statement.mapper \o "." \o statement.id

\* the map m with key k set to v
Put(m, k, v) == [x \in DOMAIN m \cup {k} |-> IF x = k THEN v ELSE m[x]]

Actions == {"select", "insert", "update", "delete"}

\* XMLParser.parseMapper, the loop over the tokens of an inline mapper
mapperLoop(d, at0, mapper, fs) ==
    LET token == Token(d, at0) IN
    CASE token.type = "EOF" -> ParsedMapper(mapper, at0, "")
      [] token.type = "StartElement" /\ token.Local \in Actions ->
            withStatement(d, mapper, fs,
                          parseStatement(token.Local, mapper.namespace, d, at0 + 1, token))
      [] token.type = "StartElement" /\ token.Local = "sql" ->
            withSQLNode(d, mapper, fs, parseSQLNode(mapper.namespace, d, at0 + 1, token))
      [] token.type = "EndElement" /\ token.Local = "mapper" ->
            ParsedMapper(mapper, at0 + 1, "")
      [] OTHER -> mapperLoop(d, at0 + 1, mapper, fs)

\* the loop after parseStatement has returned r: a statement whose key the mapper
\* has is an error
withStatement(d, mapper, fs, r) ==
    IF r.err # "" THEN ParsedMapper(NilMapper, r.at, r.err)
    ELSE IF Key(r.stmt) \in DOMAIN mapper.statements
    THEN ParsedMapper(NilMapper, r.at, "duplicate statement id")
    ELSE mapperLoop(d, r.at, [mapper EXCEPT !.statements = Put(@, Key(r.stmt), r.stmt)],
                    fs)

\* the loop after parseSQLNode has returned r, and Mapper.setSqlNode: a sql node
\* whose id the mapper has is an error
withSQLNode(d, mapper, fs, r) ==
    IF r.err # "" THEN ParsedMapper(NilMapper, r.at, r.err)
    ELSE IF r.sqlNode.id \in DOMAIN mapper.sqlNodes
    THEN ParsedMapper(NilMapper, r.at, "duplicate sql id")
    ELSE mapperLoop(d, r.at,
                    [mapper EXCEPT !.sqlNodes = Put(@, r.sqlNode.id, r.sqlNode)], fs)

\* XMLParser.parseMapperByReader, the loop over the tokens of the reader's document:
\* every mapper element is parsed, and the last one is the result
readerLoop(d, at0, mapper, fs) ==
    LET token == Token(d, at0) IN
    IF token.type = "EOF" THEN ParsedMapper(mapper, at0, "")
    ELSE IF token.type = "StartElement" /\ token.Local = "mapper"
    THEN readerAfter(d, fs, parseMapper(d, at0 + 1, token, fs))
    ELSE readerLoop(d, at0 + 1, mapper, fs)

\* the loop after parseMapper has returned r
readerAfter(d, fs, r) ==
    IF r.err # "" THEN ParsedMapper(NilMapper, r.at, r.err)
    ELSE readerLoop(d, r.at, r.mapper, fs)

\* XMLParser.parseMapperByReader
parseMapperByReader(d, fs) == readerLoop(d, 0, NilMapper, fs)

\* XMLParser.parseMapperByResource: FS.Open, then the reader
parseMapperByResource(resource, fs) ==
    IF resource \notin DOMAIN fs.FS
    THEN ParsedMapper(NilMapper, 0, "file does not exist")
    ELSE parseMapperByReader(fs.FS[resource], fs)

\* XMLParser.parseMapperByHttpResponse: http.Get, then the reader
parseMapperByHttpResponse(url, fs) ==
    IF url \notin DOMAIN fs.Web
    THEN ParsedMapper(NilMapper, 0, "http.Get failed")
    ELSE parseMapperByReader(fs.Web[url], fs)

\* XMLParser.parseMapperByURL, items being the url split at ://
byScheme(url, items, fs) ==
    IF Len(items) # 2 THEN ParsedMapper(NilMapper, 0, "invalid url")
    ELSE CASE items[1] = "file" -> parseMapperByResource(items[2], fs)
           [] items[1] \in {"http", "https"} -> parseMapperByHttpResponse(url, fs)
           [] OTHER -> ParsedMapper(NilMapper, 0, "invalid url schema")

\* XMLParser.parseMapperByURL
parseMapperByURL(url, fs) == byScheme(url, Split(url, "://"), fs)

\* the mapper that was parsed from a resource or a url as r, for the decoder at at0
elsewhere(at0, r) == ParsedMapper(r.mapper, at0, r.err)

\* XMLParser.parseMapper, called with the decoder behind the start element token:
\* a mapper with a resource or a url is the mapper parsed from there, and the
\* decoder stays where it is
parseMapper(d, at0, token, fs) ==
    IF Attribute(token, "namespace") = ""
    THEN ParsedMapper(NilMapper, at0, "namespace is required")
    ELSE IF Attribute(token, "resource") # ""
    THEN elsewhere(at0, parseMapperByResource(Attribute(token, "resource"), fs))
    ELSE IF Attribute(token, "url") # ""
    THEN elsewhere(at0, parseMapperByURL(Attribute(token, "url"), fs))
    ELSE mapperLoop(d, at0, NewMapper(Attribute(token, "namespace")), fs)

\* Mappers.setStatementByID for every statement of the mapper: an error when a key
\* is in the Mappers already
SetStatements(ms, mapper) ==
    IF \E key \in DOMAIN mapper.statements : key \in DOMAIN ms.statements
    THEN [mappers |-> ms, err |-> "statement already exists"]
    ELSE [mappers |-> [ms EXCEPT !.statements =
                          [key \in DOMAIN @ \cup DOMAIN mapper.statements |->
                              IF key \in DOMAIN @ THEN @[key] ELSE mapper.statements[key]]],
          err |-> ""]

(***************************************************************************)
(* The XML loader: environments                                            *)
(***************************************************************************)

RECURSIVE parseCharData(_, _, _, _)
RECURSIVE AtoiFrom(_, _, _)
RECURSIVE environmentLoop(_, _, _)
RECURSIVE withText(_, _, _, _)
RECURSIVE withInt(_, _, _, _)
RECURSIVE withEnvironment(_, _, _)
RECURSIVE environmentsLoop(_, _, _)
RECURSIVE AttrFirst(_, _, _)

\* the value of the first attribute of that name from the k-th on, "" when there
\* is none
AttrFirst(attr, name, k) ==
    IF k > Len(attr) THEN ""
    ELSE IF attr[k][1] = name THEN attr[k][2]
    ELSE AttrFirst(attr, name, k + 1)

\* XMLParser.parseCharData with charData read so far: the last character data
\* before the end element named endElementName, or before the end of the tokens
parseCharData(d, at0, endElementName, charData) ==
    LET token == Token(d, at0) IN
    IF token.type = "EOF" THEN [text |-> charData, at |-> at0]
    ELSE IF token.type = "CharData"
    THEN parseCharData(d, at0 + 1, endElementName, token.text)
    ELSE IF token.type = "EndElement" /\ token.Local = endElementName
    THEN [text |-> charData, at |-> at0 + 1]
    ELSE parseCharData(d, at0 + 1, endElementName, charData)

Digits == "0123456789"

\* the digits of str from the i-th character on, after the value n of those before
AtoiFrom(str, i, n) ==
    IF i > Len(str) THEN [n |-> n, err |-> ""]
    ELSE IF Index(Digits, CharAt(str, i)) = 0 THEN [n |-> 0, err |-> "invalid syntax"]
    ELSE AtoiFrom(str, i + 1, 10 * n + Index(Digits, CharAt(str, i)) - 1)

\* the number AtoiFrom found, with the sign
Signed(sign, r) == IF r.err # "" THEN r ELSE [n |-> sign * r.n, err |-> ""]

\* strconv.Atoi: an optional sign and one digit or more
Atoi(str) ==
    IF str = "" \/ str = "+" \/ str = "-" THEN [n |-> 0, err |-> "invalid syntax"]
    ELSE IF CharAt(str, 1) = "-" THEN Signed(-1, AtoiFrom(str, 2, 0))
    ELSE IF CharAt(str, 1) = "+" THEN Signed(1, AtoiFrom(str, 2, 0))
    ELSE AtoiFrom(str, 1, 0)

\* XMLParser.parseIntCharData after parseCharData has returned r, as n
IntCharData(r, n) == [n |-> n.n, at |-> r.at, err |-> n.err]

\* XMLParser.parseIntCharData
parseIntCharData(d, at0, endElementName) ==
    LET r == parseCharData(d, at0, endElementName, "") IN IntCharData(r, Atoi(r.text))

parseMaxIdleConnNum(d, at0) == parseIntCharData(d, at0, "maxIdleConnNum")

parseMaxOpenConnNum(d, at0) == parseIntCharData(d, at0, "maxOpenConnNum")

parseMaxConnLifetime(d, at0) == parseIntCharData(d, at0, "maxConnLifetime")

parseMaxIdleConnLifetime(d, at0) == parseIntCharData(d, at0, "maxIdleConnLifetime")

parseDataSource(d, at0) == parseCharData(d, at0, "dataSource", "")

parseDriver(d, at0) == parseCharData(d, at0, "driver", "")

\* an Environment with the zero value of every field but the id
Environment(id) ==
    [ID |-> id, DataSource |-> "", Driver |-> "", MaxIdleConnNum |-> 0,
     MaxOpenConnNum |-> 0, MaxConnLifetime |-> 0, MaxIdleConnLifetime |-> 0]

\* what parseEnvironment and parseEnvironments return
ParsedEnv(env, at0, err) == [env |-> env, at |-> at0, err |-> err]

\* XMLParser.parseEnvironment after the child for field has returned the text r
withText(d, env, field, r) == environmentLoop(d, r.at, [env EXCEPT ![field] = r.text])

\* XMLParser.parseEnvironment after the child for field has returned the integer r
withInt(d, env, field, r) ==
    IF r.err # "" THEN ParsedEnv(Environment(""), r.at, r.err)
    ELSE environmentLoop(d, r.at, [env EXCEPT ![field] = r.n])

\* XMLParser.parseEnvironment, the loop over the tokens
environmentLoop(d, at0, env) ==
    LET token == Token(d, at0) IN
    CASE token.type = "EOF" -> ParsedEnv(env, at0, "")
      [] token.type = "StartElement" /\ token.Local = "dataSource" ->
            withText(d, env, "DataSource", parseDataSource(d, at0 + 1))
      [] token.type = "StartElement" /\ token.Local = "driver" ->
            withText(d, env, "Driver", parseDriver(d, at0 + 1))
      [] token.type = "StartElement" /\ token.Local = "maxIdleConnNum" ->
            withInt(d, env, "MaxIdleConnNum", parseMaxIdleConnNum(d, at0 + 1))
      [] token.type = "StartElement" /\ token.Local = "maxOpenConnNum" ->
            withInt(d, env, "MaxOpenConnNum", parseMaxOpenConnNum(d, at0 + 1))
      [] token.type = "StartElement" /\ token.Local = "maxLifetime" ->
            withInt(d, env, "MaxConnLifetime", parseMaxConnLifetime(d, at0 + 1))
      [] token.type = "StartElement" /\ token.Local = "maxIdleConnLifetime" ->
            withInt(d, env, "MaxIdleConnLifetime", parseMaxIdleConnLifetime(d, at0 + 1))
      [] token.type = "EndElement" /\ token.Local = "environment" ->
            ParsedEnv(env, at0 + 1, "")
      [] OTHER -> environmentLoop(d, at0 + 1, env)

\* XMLParser.parseEnvironment, called with the decoder behind the start element
parseEnvironment(d, at0, token) ==
    IF AttrFirst(token.Attr, "id", 1) = ""
    THEN ParsedEnv(Environment(""), at0, "environment id is required")
    ELSE environmentLoop(d, at0, Environment(AttrFirst(token.Attr, "id", 1)))

\* Environments: the default id and the environments by id
Environments(default, envs) == [Default |-> default, envs |-> envs]

NoEnvironments == Environments("", << >>)

\* what parseEnvironments returns
ParsedEnvs(envs, at0, err) == [envs |-> envs, at |-> at0, err |-> err]

\* XMLParser.parseEnvironments after parseEnvironment has returned r
withEnvironment(d, envs, r) ==
    IF r.err # "" THEN ParsedEnvs(NoEnvironments, r.at, r.err)
    ELSE IF r.env.ID \in DOMAIN envs.envs
    THEN ParsedEnvs(NoEnvironments, r.at, "duplicate environment id")
    ELSE environmentsLoop(d, r.at, [envs EXCEPT !.envs = Put(@, r.env.ID, r.env)])

\* XMLParser.parseEnvironments, the loop over the tokens
environmentsLoop(d, at0, envs) ==
    LET token == Token(d, at0) IN
    CASE token.type = "EOF" -> ParsedEnvs(envs, at0, "")
      [] token.type = "StartElement" /\ token.Local = "environment" ->
            withEnvironment(d, envs, parseEnvironment(d, at0 + 1, token))
      [] token.type = "EndElement" /\ token.Local = "environments" ->
            ParsedEnvs(envs, at0 + 1, "")
      [] OTHER -> environmentsLoop(d, at0 + 1, envs)

\* XMLParser.parseEnvironments, called with the decoder behind the start element
parseEnvironments(d, at0, token) ==
    IF AttrFirst(token.Attr, "default", 1) = ""
    THEN ParsedEnvs(NoEnvironments, at0, "default environment is required")
    ELSE environmentsLoop(d, at0, Environments(AttrFirst(token.Attr, "default", 1), << >>))

(***************************************************************************)
(* The documents                                                           *)
(***************************************************************************)

MaxMappers == 2

\* an element: its start tag, its content, its end tag
Element(name, attr, content) ==
    << StartElement(name, attr) >> \o content \o << EndElement(name) >>

Blank == << CharData("\n  ") >>

SelectX ==
    Element("select", << << "id", "x" >> >>,
            << CharData("\n SELECT * FROM t ") >>
            \o Element("if", << << "test", "id != 0" >> >>, << CharData("WHERE id = #{id}") >>)
            \o Blank)

UpdateY ==
    Element("update", << << "id", "y" >> >>,
            << CharData("UPDATE t") >>
            \o Element("set", << >>, << CharData("a = #{a},") >>)
            \o Element("where", << >>,
                   Element("include", << << "refid", "byId" >> >>, << >>)
                   \o Element("trim", << << "prefix", "(" >>, << "suffix", ")" >> >>,
                          << CharData("\n  c IN ") >>
                          \o Element("foreach",
                                 << << "collection", "ids" >>, << "item", "i" >> >>,
                                 << CharData("#{i}") >>)
                          \o Blank)))

SqlById == Element("sql", << << "id", "byId" >> >>, << CharData("AND id = #{id}") >>)

DeleteZ == Element("delete", << << "id", "z" >> >>, Element("when", << >>, << >>))

SelectC ==
    Element("select", << << "id", "c" >> >>,
            << CharData("SELECT 1 WHERE") >>
            \o Element("choose", << >>,
                   Element("when", << << "test", "id > 0" >> >>, << CharData("id = #{id}") >>)
                   \o Element("otherwise", << >>, << CharData("1 = 1") >>)))

MapperElement(attr, content) == Blank \o Element("mapper", attr, content)

\* the mapper elements a document is made of
MapperElements ==
    { MapperElement(<< << "namespace", "a" >> >>, << >>),
      MapperElement(<< << "namespace", "a" >> >>, SelectX),
      MapperElement(<< << "namespace", "a" >> >>, Blank \o SqlById \o UpdateY),
      MapperElement(<< << "namespace", "b" >> >>, SelectX \o Blank),
      MapperElement(<< >>, SelectX),
      MapperElement(<< << "namespace", "a" >> >>, SelectX \o SelectX),
      MapperElement(<< << "namespace", "b" >> >>, DeleteZ),
      MapperElement(<< << "namespace", "b" >> >>, SelectC),
      MapperElement(<< << "namespace", "a" >>, << "resource", "b.xml" >> >>, << >>),
      MapperElement(<< << "namespace", "a" >>, << "resource", "none.xml" >> >>, << >>),
      MapperElement(<< << "namespace", "a" >>, << "resource", "gone.xml" >> >>, << >>),
      MapperElement(<< << "namespace", "b" >>, << "url", "file://b.xml" >> >>, << >>),
      MapperElement(<< << "namespace", "b" >>, << "url", "http://h/b.xml" >> >>, << >>),
      MapperElement(<< << "namespace", "b" >>, << "url", "b.xml" >> >>, << >>),
      MapperElement(<< << "namespace", "b" >>, << "url", "ftp://h/b.xml" >> >>, << >>) }

RECURSIVE Concat(_, _)
\* the sequences of seqs, from the i-th on, one after the other
Concat(seqs, i) == IF i > Len(seqs) THEN << >> ELSE seqs[i] \o Concat(seqs, i + 1)

\* the documents: a configuration whose mappers element holds up to MaxMappers
\* mapper elements
Documents ==
    { Element("configuration", << >>,
              Blank \o Element("mappers", << >>, Concat(ms, 1) \o Blank) \o Blank)
      : ms \in UNION { [1..n -> MapperElements] : n \in 0..MaxMappers } }

\* the document of a mapper file
MapperFile == Element("mapper", << << "namespace", "b" >> >>, SelectX)

\* the file systems and the web: a file with a mapper and a file with none; the host
\* answers or does not
FileSystems ==
    { [FS |-> [name \in {"b.xml", "none.xml"} |->
                  IF name = "b.xml" THEN MapperFile ELSE Blank],
       Web |-> [url \in urls |-> MapperFile]]
      : urls \in {{}, {"http://h/b.xml"}} }

\* no file and no host
NoFiles == [FS |-> << >>, Web |-> << >>]

(***************************************************************************)
(* The loader as a state machine                                           *)
(***************************************************************************)

\* the Mappers parseMappers starts from
NewMappers == [statements |-> << >>]

\* the Configuration: nil, or its Mappers
NilConfiguration ==
    [nil |-> TRUE, Environments |-> NoEnvironments, Mappers |-> NewMappers]

\* XMLParser.configuration before Parse
NewConfiguration ==
    [nil |-> FALSE, Environments |-> NoEnvironments, Mappers |-> NewMappers]

LoadInit ==
    /\ RenderIdle /\ IncludeIdle /\ ConcIdle
    /\ doc \in Documents
    /\ files \in FileSystems
    /\ pos = 0
    /\ phase = "Parse"
    /\ mappers = NewMappers
    /\ configuration = NewConfiguration
    /\ loadErr = ""

\* Parse: one turn of its loop on a token that is no environments element.  At the
\* end of the tokens it returns the configuration; a mappers element starts
\* parseMappers on new Mappers.  (The documents have no settings element.)
ParseToken ==
    /\ phase = "Parse"
    /\ ~ (Token(doc, pos).type = "StartElement" /\ Token(doc, pos).Local = "environments")
    /\ LET token == Token(doc, pos) IN
       CASE token.type = "EOF" ->
               /\ phase' = "returned"
               /\ UNCHANGED << pos, mappers >>
         [] token.type = "StartElement" /\ token.Local = "mappers" ->
               /\ phase' = "parseMappers"
               /\ pos' = pos + 1
               /\ mappers' = NewMappers
         [] OTHER ->
               /\ pos' = pos + 1
               /\ UNCHANGED << phase, mappers >>
    /\ UNCHANGED << doc, files, configuration, loadErr, renderVars, includeVars, concVars >>

\* parseMappers: one turn of its loop on a token that is no mapper element.  The end
\* of the mappers element, or of the tokens, returns to Parse, which keeps the
\* Mappers in the configuration.
ParseMappersToken ==
    /\ phase = "parseMappers"
    /\ LET token == Token(doc, pos) IN
       /\ ~ (token.type = "StartElement" /\ token.Local = "mapper")
       /\ IF token.type = "EOF" \/ (token.type = "EndElement" /\ token.Local = "mappers")
          THEN /\ phase' = "Parse"
               /\ configuration' = [configuration EXCEPT !.Mappers = mappers]
               /\ pos' = IF token.type = "EOF" THEN pos ELSE pos + 1
          ELSE /\ pos' = pos + 1
               /\ UNCHANGED << phase, configuration >>
    /\ UNCHANGED << doc, files, mappers, loadErr, renderVars, includeVars, concVars >>

\* parseMappers after the statements of the mapper that parseMapper returned as r
\* have been set in the Mappers, with the outcome set
MapperSet(r, set) ==
    IF set.err # ""
    THEN /\ phase' = "returned"
         /\ loadErr' = set.err
         /\ configuration' = NilConfiguration
         /\ UNCHANGED << pos, mappers >>
    ELSE /\ mappers' = set.mappers
         /\ pos' = r.at
         /\ UNCHANGED << phase, configuration, loadErr >>

\* parseMappers after parseMapper has returned r
MapperParsed(r) ==
    IF r.err # ""
    THEN /\ phase' = "returned"
         /\ loadErr' = r.err
         /\ configuration' = NilConfiguration
         /\ UNCHANGED << pos, mappers >>
    ELSE IF r.mapper.nil
    THEN /\ phase' = "panicked"
         /\ configuration' = NilConfiguration
         /\ UNCHANGED << pos, mappers, loadErr >>
    ELSE MapperSet(r, SetStatements(mappers, r.mapper))

\* parseMappers: one turn of its loop on a mapper element.  parseMapper parses it and
\* every statement of the mapper is set in the Mappers; an error ends Parse with no
\* configuration.  A nil mapper (of a mapper file with no mapper element) is
\* dereferenced, and the program panics.
ParseMappersMapper ==
    /\ phase = "parseMappers"
    /\ Token(doc, pos).type = "StartElement" /\ Token(doc, pos).Local = "mapper"
    /\ MapperParsed(parseMapper(doc, pos + 1, Token(doc, pos), files))
    /\ UNCHANGED << doc, files, renderVars, includeVars, concVars >>

LoadNext == ParseToken \/ ParseMappersToken \/ ParseMappersMapper

SpecLoad == LoadInit /\ [][LoadNext]_vars

(***************************************************************************)
(* C5  namespaces                                                          *)
(***************************************************************************)

\* the namespaces of the mapper elements of the document, in document order
Namespaces ==
    LET starts == SelectSeq(doc, LAMBDA t : t.type = "StartElement" /\ t.Local = "mapper")
    IN  [k \in 1..Len(starts) |-> Attribute(starts[k], "namespace")]

\* two mapper elements of the document have the same namespace
NamespaceTwice ==
    \E j, k \in 1..Len(Namespaces) : j < k /\ Namespaces[j] = Namespaces[k]

\* C5: when Parse returns from a document in which two mappers have the same
\* namespace, it returns an error and no Configuration, also when the two mappers
\* have no statement id in common
C5_SameNamespaceFailsLoad ==
    (phase = "returned" /\ NamespaceTwice) => (loadErr # "" /\ configuration.nil)

(***************************************************************************)
(* C14  the tags of a body                                                 *)
(***************************************************************************)

RECURSIVE NestingFrom(_, _, _)
\* << name, name of the parent >> of every element of d from token i on, open being
\* the elements that are open there
NestingFrom(d, i, open) ==
    IF i > Len(d) THEN {}
    ELSE IF d[i].type = "StartElement"
    THEN { << d[i].Local, IF open = << >> THEN "" ELSE open[Len(open)] >> }
         \cup NestingFrom(d, i + 1, Append(open, d[i].Local))
    ELSE IF d[i].type = "EndElement"
    THEN NestingFrom(d, i + 1, SubSeq(open, 1, Len(open) - 1))
    ELSE NestingFrom(d, i + 1, open)

\* the elements of the document inside the body of a statement or of a fragment
BodyElements ==
    { e \in NestingFrom(doc, 1, << >>) : e[2] \notin {"", "configuration", "mappers", "mapper"} }

\* the element names of C14: the seven tags, and when and otherwise in a choose
Recognized(e) ==
    \/ e[1] \in {"if", "where", "set", "trim", "foreach", "include", "choose"}
    \/ e[1] \in {"when", "otherwise"} /\ e[2] = "choose"

\* C14: when Parse returns, it has failed with "unknown tag" only on a document
\* that has another element than if, where, set, trim, foreach, include and choose
\* (with its when and otherwise) in a body; a document that has such an element
\* has failed; and the statement y of UpdateY has its text, its set and its where
C14_TagDispatch ==
    phase = "returned" =>
        /\ loadErr = "unknown tag" => \E e \in BodyElements : ~ Recognized(e)
        /\ (\E e \in BodyElements : ~ Recognized(e)) => loadErr # ""
        /\ (loadErr = "" /\ "a.y" \in DOMAIN configuration.Mappers.statements) =>
               [k \in 1..3 |-> configuration.Mappers.statements["a.y"].Nodes[k].kind]
                   = << "text", "set", "where" >>

(***************************************************************************)
(* C20  the text and the order of a parsed body                            *)
(***************************************************************************)

\* what the comparison keeps of a node or a token: the kind, and the text of a text
Label(kind, value) == [kind |-> kind, value |-> value]

RECURSIVE NodeLabels(_, _)
\* the labels of the parsed nodes from the i-th on and of the nodes below them, a
\* node before the nodes below it
NodeLabels(nodes, i) ==
    IF i > Len(nodes) THEN << >>
    ELSE IF nodes[i].kind = "text"
    THEN << Label("text", nodes[i].value) >> \o NodeLabels(nodes, i + 1)
    ELSE IF nodes[i].kind = "include"
    THEN << Label("include", "") >> \o NodeLabels(nodes, i + 1)
    ELSE << Label(nodes[i].kind, "") >> \o NodeLabels(nodes[i].Nodes, 1)
             \o NodeLabels(nodes, i + 1)

RECURSIVE DocLabels(_, _, _, _)
\* the labels of the tokens of d from the i-th on, up to the end of the elements
\* that are open: a start element gives its name, character data that is not blank
\* gives its trimmed text; inTrim says whether the text directly inside a trim
\* element counts
DocLabels(d, i, open, inTrim) ==
    IF open = << >> \/ i > Len(d) THEN << >>
    ELSE CASE d[i].type = "StartElement" ->
                 << Label(d[i].Local, "") >>
                     \o DocLabels(d, i + 1, Append(open, d[i].Local), inTrim)
           [] d[i].type = "EndElement" ->
                 DocLabels(d, i + 1, SubSeq(open, 1, Len(open) - 1), inTrim)
           [] OTHER ->
                 IF /\ TrimSpace(d[i].text) # ""
                    /\ inTrim \/ open[Len(open)] # "trim"
                 THEN << Label("text", TrimSpace(d[i].text)) >>
                          \o DocLabels(d, i + 1, open, inTrim)
                 ELSE DocLabels(d, i + 1, open, inTrim)

\* the namespace of the mapper element that is open at token j of the document
NamespaceAt(j) ==
    Attribute(doc[CHOOSE m \in 1..j :
                      /\ doc[m].type = "StartElement" /\ doc[m].Local = "mapper"
                      /\ \A k \in (m + 1)..j :
                             ~ (doc[k].type = "StartElement" /\ doc[k].Local = "mapper")],
              "namespace")

\* the tokens of the document that open a statement
StatementsAt ==
    { j \in 1..Len(doc) : doc[j].type = "StartElement" /\ doc[j].Local \in Actions }

\* the statement that the element at token j was registered as
Registered(j) ==
    configuration.Mappers.statements[NamespaceAt(j) \o "." \o Attribute(doc[j], "id")]

\* the nodes of every statement of a document that was loaded are the labels of
\* its body, in document order
TextAndOrder(inTrim) ==
    (phase = "returned" /\ loadErr = "") =>
        \A j \in StatementsAt :
            NodeLabels(Registered(j).Nodes, 1)
                = DocLabels(doc, j + 1, << doc[j].Local >>, inTrim)

\* C20: when Parse returns without error, the nodes of every statement of the
\* document are, in document order, a TextNode of the trimmed text for every run
\* of character data of its body that is not blank (directly in the statement or
\* in an if, where, set, trim or foreach), and the node of every tag
C20_BodyKeepsTextAndOrder == TextAndOrder(TRUE)

\* the same with the text directly inside a trim element left out
BodyKeepsTextOutsideTrim == TextAndOrder(FALSE)

\* the statement y has been loaded with the text of its body, of its set and of its
\* foreach
BodyParsed ==
    /\ phase = "returned" /\ loadErr = ""
    /\ "a.y" \in DOMAIN configuration.Mappers.statements
    /\ NodeLabels(configuration.Mappers.statements["a.y"].Nodes, 1)
           = << Label("text", "UPDATE t"), Label("set", ""), Label("text", "a = #{a},"),
                Label("where", ""), Label("include", ""), Label("trim", ""),
                Label("foreach", ""), Label("text", "#{i}") >>

(***************************************************************************)
(* C17  mappers with a resource or a url                                   *)
(***************************************************************************)

\* the start elements of the mapper elements of the document that have a namespace
\* and name a resource or a url
ExternalMappers ==
    { doc[i] : i \in { j \in 1..Len(doc) :
                         /\ doc[j].type = "StartElement" /\ doc[j].Local = "mapper"
                         /\ Attribute(doc[j], "namespace") # ""
                         /\ \/ Attribute(doc[j], "resource") # ""
                            \/ Attribute(doc[j], "url") # "" } }

\* the source the mapper element names holds the mapper file
NamesMapperFile(token) ==
    IF Attribute(token, "resource") # ""
    THEN Attribute(token, "resource") = "b.xml"
    ELSE \/ Attribute(token, "url") = "file://b.xml"
         \/ Attribute(token, "url") \in DOMAIN files.Web

\* the url of the mapper element has no :// or a scheme that is not file, http, https
BadUrl(token) ==
    /\ Attribute(token, "resource") = ""
    /\ \/ Len(Split(Attribute(token, "url"), "://")) # 2
       \/ Split(Attribute(token, "url"), "://")[1] \notin {"file", "http", "https"}

\* C17: when Parse returns without error, the statement x of the mapper file is
\* registered under N.x for every mapper element of namespace N whose resource or
\* url names the file; and Parse returns an error when a mapper element has a url
\* without :// or with an unknown scheme
C17_ExternalMappersKeepNamespace ==
    phase = "returned" =>
        /\ loadErr = "" =>
               \A token \in ExternalMappers :
                   NamesMapperFile(token) =>
                       /\ Attribute(token, "namespace") \o ".x"
                              \in DOMAIN configuration.Mappers.statements
                       /\ configuration.Mappers.statements
                              [Attribute(token, "namespace") \o ".x"].mapper
                              = Attribute(token, "namespace")
        /\ (\E token \in ExternalMappers : BadUrl(token)) => loadErr # ""

\* the second half alone: a url without :// or with an unknown scheme fails the load
BadUrlsFail ==
    phase = "returned" => ((\E token \in ExternalMappers : BadUrl(token)) => loadErr # "")

\* a mapper file has been loaded through a url
UrlMapperLoaded ==
    /\ phase = "returned" /\ loadErr = ""
    /\ \E token \in ExternalMappers : Attribute(token, "url") = "http://h/b.xml"
    /\ "b.x" \in DOMAIN configuration.Mappers.statements

(***************************************************************************)
(* C21  a resource or a url with no mapper element                         *)
(***************************************************************************)

\* the resource of the mapper element is a file that holds no mapper element
NamesNoMapper(token) ==
    /\ Attribute(token, "resource") # ""
    /\ Attribute(token, "resource") \in DOMAIN files.FS
    /\ parseMapperByReader(files.FS[Attribute(token, "resource")], files).mapper.nil
    /\ parseMapperByReader(files.FS[Attribute(token, "resource")], files).err = ""

\* C21: the loader never dereferences a nil mapper, and when Parse returns from a
\* document with a mapper element whose resource holds no mapper element, it
\* returns an error and no Configuration
C21_MissingMapperIsAnError ==
    /\ phase # "panicked"
    /\ (phase = "returned" /\ \E token \in ExternalMappers : NamesNoMapper(token)) =>
           (loadErr # "" /\ configuration.nil)

\* the loader panics nowhere but in parseMappers, on the mapper element whose
\* resource holds no mapper element
PanicsOnMissingMapperOnly ==
    phase = "panicked" =>
        /\ Token(doc, pos).type = "StartElement" /\ Token(doc, pos).Local = "mapper"
        /\ NamesNoMapper(Token(doc, pos))

\* a resource that cannot be opened is an error
MissingFileIsAnError ==
    (phase = "returned"
        /\ \E token \in ExternalMappers : Attribute(token, "resource") = "gone.xml") =>
        (loadErr # "" /\ configuration.nil)

\* parseMappers has dereferenced the nil mapper of none.xml, with no error set
MissingMapperPanics ==
    /\ phase = "panicked" /\ loadErr = ""
    /\ Attribute(Token(doc, pos), "resource") = "none.xml"

(***************************************************************************)
(* The loader on documents with environments                               *)
(***************************************************************************)

MaxEnvs == 2

\* an environment element with its children, whitespace between them
EnvElement(attr, children) ==
    Blank \o Element("environment", attr, Concat(children, 1) \o Blank)

Child(name, text) == Blank \o Element(name, << >>, << CharData(text) >>)

\* the environment elements a document is made of
EnvElements ==
    { EnvElement(<< << "id", "dev" >> >>,
                 << Child("dataSource", "root@/dev"), Child("driver", "mysql") >>),
      EnvElement(<< << "id", "prod" >> >>,
                 << Child("driver", "mysql"), Child("maxIdleConnNum", "10"),
                    Child("maxOpenConnNum", "-5"), Child("maxIdleConnLifetime", "+30") >>),
      EnvElement(<< << "id", "prod" >> >>,
                 << Child("maxLifetime", "60"), Child("maxIdleConnNum", "10") >>),
      EnvElement(<< << "id", "dev" >> >>, << Child("maxOpenConnNum", "ten") >>),
      EnvElement(<< >>, << Child("driver", "mysql") >>),
      Element("environment", << << "id", "dev" >> >>,
              Element("maxIdleConnNum", << >>, << CharData("7") >>)
              \o Element("maxLifetime", << >>, << CharData("60") >>)) }

\* the attributes of the environments element
Defaults == { << >>, << << "default", "dev" >> >>, << << "default", "prod" >> >>,
              << << "default", "qa" >> >> }

EnvsElement(default, envs) == Element("environments", default, Concat(envs, 1))

MappersElement == Element("mappers", << >>, MapperElement(<< << "namespace", "a" >> >>, SelectX))

\* the documents: a configuration with an environments element of up to MaxEnvs
\* environments, before its mappers with whitespace around the elements, or after
\* them with none
EnvDocuments ==
    UNION { { Element("configuration", << >>,
                      Blank \o EnvsElement(default, envs) \o Blank \o MappersElement \o Blank),
              Element("configuration", << >>, MappersElement \o EnvsElement(default, envs)) }
            : default \in Defaults,
              envs \in UNION { [1..n -> EnvElements] : n \in 0..MaxEnvs } }

EnvInit ==
    /\ RenderIdle /\ IncludeIdle /\ ConcIdle
    /\ doc \in EnvDocuments
    /\ files = NoFiles
    /\ pos = 0
    /\ phase = "Parse"
    /\ mappers = NewMappers
    /\ configuration = NewConfiguration
    /\ loadErr = ""

\* Parse after parseEnvironments has returned r
EnvironmentsParsed(r) ==
    IF r.err # ""
    THEN /\ phase' = "returned"
         /\ loadErr' = r.err
         /\ configuration' = NilConfiguration
         /\ UNCHANGED pos
    ELSE /\ configuration' = [configuration EXCEPT !.Environments = r.envs]
         /\ pos' = r.at
         /\ UNCHANGED << phase, loadErr >>

\* Parse: one turn of its loop on an environments element
ParseEnvironments ==
    /\ phase = "Parse"
    /\ Token(doc, pos).type = "StartElement" /\ Token(doc, pos).Local = "environments"
    /\ EnvironmentsParsed(parseEnvironments(doc, pos + 1, Token(doc, pos)))
    /\ UNCHANGED << doc, files, mappers, renderVars, includeVars, concVars >>

EnvNext == ParseToken \/ ParseEnvironments \/ ParseMappersToken \/ ParseMappersMapper

SpecEnv == EnvInit /\ [][EnvNext]_vars

(***************************************************************************)
(* C15  the default environment                                            *)
(***************************************************************************)

\* the attributes of the environments element of the document
EnvsAttr == doc[CHOOSE i \in 1..Len(doc) :
                    doc[i].type = "StartElement" /\ doc[i].Local = "environments"].Attr

\* the ids of the environment elements of the document, in document order
EnvIds ==
    LET starts == SelectSeq(doc, LAMBDA t : t.type = "StartElement" /\ t.Local = "environment")
    IN  [k \in 1..Len(starts) |-> AttrFirst(starts[k].Attr, "id", 1)]

\* C15: a Configuration that Parse returns without error has a default environment
\* id that is not empty and is the id of one of its environments; and Parse has
\* failed when the default attribute is missing, when it names no environment of
\* the document, and when two environments of the document have the same id
C15_DefaultNamesAnEnvironment ==
    phase = "returned" =>
        /\ loadErr = "" =>
               /\ configuration.Environments.Default # ""
               /\ configuration.Environments.Default
                      \in DOMAIN configuration.Environments.envs
        /\ (\/ AttrFirst(EnvsAttr, "default", 1) = ""
            \/ \A k \in 1..Len(EnvIds) : EnvIds[k] # AttrFirst(EnvsAttr, "default", 1)
            \/ \E j, k \in 1..Len(EnvIds) : j < k /\ EnvIds[j] = EnvIds[k])
           => loadErr # ""

\* the document has no maxLifetime element
NoMaxLifetime == \A i \in 1..Len(doc) : doc[i].Local # "maxLifetime"

\* the two failures the loader does report, on a document whose environments are
\* all parsed: no default attribute, and an id twice
EnvFailuresReported ==
    (phase = "returned" /\ NoMaxLifetime) =>
        ((\/ AttrFirst(EnvsAttr, "default", 1) = ""
          \/ \E j, k \in 1..Len(EnvIds) : j < k /\ EnvIds[j] = EnvIds[k])
         => loadErr # "")

\* a default that names no environment of the document has been loaded
DefaultUnknownLoaded ==
    /\ phase = "returned" /\ NoMaxLifetime /\ loadErr = ""
    /\ configuration.Environments.Default = "qa"
    /\ DOMAIN configuration.Environments.envs = {"dev"}
    /\ "a.x" \in DOMAIN configuration.Mappers.statements

(***************************************************************************)
(* C16  the integer children of an environment                             *)
(***************************************************************************)

IntNames == {"maxIdleConnNum", "maxOpenConnNum", "maxLifetime", "maxIdleConnLifetime"}

\* the field of Environment that parseEnvironment sets from the child
FieldOf(name) ==
    CASE name = "maxIdleConnNum" -> "MaxIdleConnNum"
      [] name = "maxOpenConnNum" -> "MaxOpenConnNum"
      [] name = "maxLifetime" -> "MaxConnLifetime"
      [] name = "maxIdleConnLifetime" -> "MaxIdleConnLifetime"

RECURSIVE IntChildrenFrom(_, _, _)
\* << environment id, child name, character data >> of every integer child of d
\* from token i on, id being the id of the environment that is open there
IntChildrenFrom(d, i, id) ==
    IF i >= Len(d) THEN {}
    ELSE IF d[i].type = "StartElement" /\ d[i].Local = "environment"
    THEN IntChildrenFrom(d, i + 1, AttrFirst(d[i].Attr, "id", 1))
    ELSE IF d[i].type = "StartElement" /\ d[i].Local \in IntNames
            /\ d[i + 1].type = "CharData"
    THEN { << id, d[i].Local, d[i + 1].text >> } \cup IntChildrenFrom(d, i + 1, id)
    ELSE IntChildrenFrom(d, i + 1, id)

IntChildren == IntChildrenFrom(doc, 1, "")

\* the document has a default, an id on every environment, no id twice, and a
\* signed decimal integer in every integer child
IntegersWellFormed ==
    /\ AttrFirst(EnvsAttr, "default", 1) # ""
    /\ \A k \in 1..Len(EnvIds) : EnvIds[k] # ""
    /\ \A j, k \in 1..Len(EnvIds) : j < k => EnvIds[j] # EnvIds[k]
    /\ \A c \in IntChildren : Atoi(c[3]).err = ""

\* the load has succeeded with every environment, every integer and the mapper
IntegersStored ==
    /\ loadErr = ""
    /\ \A k \in 1..Len(EnvIds) : EnvIds[k] \in DOMAIN configuration.Environments.envs
    /\ \A c \in IntChildren :
           /\ c[1] \in DOMAIN configuration.Environments.envs
           /\ configuration.Environments.envs[c[1]][FieldOf(c[2])] = Atoi(c[3]).n
    /\ "a.x" \in DOMAIN configuration.Mappers.statements

\* C16: when Parse returns from a document in which every maxIdleConnNum,
\* maxOpenConnNum, maxLifetime and maxIdleConnLifetime holds a signed decimal
\* integer, the load has succeeded, every such integer is in the field of its
\* environment, and the elements after it (later children, later environments,
\* the mappers) have been parsed
C16_IntegerChildrenAreStored ==
    (phase = "returned" /\ IntegersWellFormed) => IntegersStored

\* the same for the documents without a maxLifetime child
OtherIntegersAreStored ==
    (phase = "returned" /\ IntegersWellFormed /\ NoMaxLifetime) => IntegersStored

\* the three other integers of an environment have been stored
OtherIntegersLoaded ==
    /\ phase = "returned" /\ loadErr = "" /\ NoMaxLifetime
    /\ "prod" \in DOMAIN configuration.Environments.envs
    /\ configuration.Environments.envs["prod"].MaxOpenConnNum = -5
    /\ configuration.Environments.envs["prod"].MaxIdleConnLifetime = 30

(***************************************************************************)
(* Renders of a loaded mapper, call by call                                *)
(***************************************************************************)

MaxFragments == 2

\* the calls of NodeGroup.Accept the stack of a goroutine has room for.  (The Go
\* runtime ends the program with "fatal error: stack overflow" when a goroutine's
\* stack passes its maximum size; no error is returned and no recover() sees it.)
MaxStack == 4

FragmentId(k) == "f" \o CharAt("123456789", k)

IncludeTag(refid) ==
    Element("include", IF refid = "" THEN << >> ELSE << << "refid", refid >> >>, << >>)

\* what the sql element of a fragment can hold: a text, an include of a fragment of
\* the mapper (of itself too), both, an include of a fragment the mapper does not
\* have, an include without a refid
Bodies ==
    { << CharData("id, name") >>, IncludeTag("nope"), IncludeTag("") }
    \cup { IncludeTag(FragmentId(j)) : j \in 1..MaxFragments }
    \cup { << CharData("id,") >> \o IncludeTag(FragmentId(j)) : j \in 1..MaxFragments }
    \cup { IncludeTag(FragmentId(j)) \o << CharData("FROM t") >> : j \in 1..MaxFragments }

\* the mapper documents: the fragments f1, f2, ... and a statement s whose body
\* includes f1
IncludeDocuments ==
    { Element("mapper", << << "namespace", "a" >> >>,
              Concat([k \in 1..MaxFragments |->
                         Element("sql", << << "id", FragmentId(k) >> >>, body[k])], 1)
              \o Element("select", << << "id", "s" >> >>,
                         << CharData("SELECT") >> \o IncludeTag("f1")))
      : body \in [1..MaxFragments -> Bodies] }

\* the sql nodes of a parsed mapper, as a list
SqlNodesOf(mapper) ==
    [k \in 1..MaxFragments |->
        [kind |-> "sql", mapper |-> mapper.sqlNodes[FragmentId(k)].mapper,
         id |-> FragmentId(k), nodes |-> mapper.sqlNodes[FragmentId(k)].nodes]]

\* a call of NodeGroup.Accept that has not returned: the nodes of the group, the
\* node the loop is at, the builder; owner is the key of the fragment whose nodes
\* they are, "" for the statement
Frame(owner, nodes) == [owner |-> owner, nodes |-> nodes, i |-> 1, builder |-> ""]

\* the state after parseMapper has returned r for the document: a render of
\* statement s starts when the mapper has loaded
Loaded(r) ==
    IF r.err # ""
    THEN fragments = << >> /\ stack = << >> /\ outcome = "load error"
    ELSE /\ fragments = SqlNodesOf(r.mapper)
         /\ stack = << Frame("", r.mapper.statements["a.s"].Nodes) >>
         /\ outcome = "running"

IncludeInit ==
    /\ RenderIdle /\ ConcIdle
    /\ doc \in IncludeDocuments
    /\ files = NoFiles /\ pos = 0 /\ phase = "" /\ mappers = << >>
    /\ configuration = << >> /\ loadErr = ""
    /\ linked = {}
    /\ Loaded(parseMapper(doc, 1, Token(doc, 0), files))

\* the innermost call and the node its loop is at
Top == stack[Len(stack)]

AtNode(kind) ==
    /\ outcome = "running"
    /\ Top.i <= Len(Top.nodes)
    /\ Top.nodes[Top.i].kind = kind

\* NodeGroup.Accept, one turn of the loop of call f whose node has returned q: q
\* is written when it is not empty, and a space after it when the node is not the
\* last one and q does not end with a space
Turn(f, q) ==
    [f EXCEPT !.i = @ + 1,
              !.builder = IF Len(q) = 0 THEN @
                          ELSE IF f.i < Len(f.nodes) /\ ~ HasSuffix(q, " ")
                          THEN @ \o q \o " "
                          ELSE @ \o q]

\* the stack when its innermost call is f
WithTop(f) == [stack EXCEPT ![Len(stack)] = f]

\* the node is a text (the texts of the documents have no #{...} and no ${...}):
\* it returns its value
AcceptText ==
    /\ AtNode("text")
    /\ stack' = WithTop(Turn(Top, Top.nodes[Top.i].value))
    /\ UNCHANGED << fragments, linked, outcome, renderVars, loadVars, concVars >>

\* the IncludeNode the innermost call is at, and what GetSQLNodeByID has for it
Here == << Top.owner, Top.i >>

Resolved == FindKey(fragments, RefKey(Top.nodes[Top.i].mapper, Top.nodes[Top.i].RefId))

\* IncludeNode.Accept on a node whose fragment is found, or was found before: the
\* sqlNode is set and SQLNode.Accept calls NodeGroup.Accept on the fragment's nodes
EnterInclude ==
    /\ AtNode("include")
    /\ Here \in linked \/ Resolved.err = ""
    /\ Len(stack) < MaxStack
    /\ stack' = Append(stack, Frame(Resolved.key, NodeOfKey(fragments, Resolved.key).nodes))
    /\ linked' = linked \cup {Here}
    /\ UNCHANGED << fragments, outcome, renderVars, loadVars, concVars >>

\* the same call when the stack has no room for it: the runtime ends the program
StackOverflow ==
    /\ AtNode("include")
    /\ Here \in linked \/ Resolved.err = ""
    /\ Len(stack) >= MaxStack
    /\ outcome' = "fatal"
    /\ linked' = linked \cup {Here}
    /\ UNCHANGED << fragments, stack, renderVars, loadVars, concVars >>

\* IncludeNode.Accept on a node whose fragment is not found: it returns the error,
\* and so does every NodeGroup.Accept up to the render
IncludeNotFound ==
    /\ AtNode("include")
    /\ Here \notin linked /\ Resolved.err # ""
    /\ outcome' = "error"
    /\ stack' = << >>
    /\ UNCHANGED << fragments, linked, renderVars, loadVars, concVars >>

\* NodeGroup.Accept of a fragment returns its builder, through SQLNode.Accept and
\* IncludeNode.Accept, to the loop of the call below it
ReturnFragment ==
    /\ outcome = "running"
    /\ Top.i > Len(Top.nodes)
    /\ Len(stack) > 1
    /\ stack' = [k \in 1..(Len(stack) - 1) |->
                    IF k = Len(stack) - 1 THEN Turn(stack[k], Top.builder) ELSE stack[k]]
    /\ UNCHANGED << fragments, linked, outcome, renderVars, loadVars, concVars >>

\* NodeGroup.Accept of the statement returns its builder: the render has returned
ReturnStatement ==
    /\ outcome = "running"
    /\ Top.i > Len(Top.nodes)
    /\ Len(stack) = 1
    /\ outcome' = "returned"
    /\ UNCHANGED << fragments, stack, linked, renderVars, loadVars, concVars >>

IncludeNext ==
    \/ AcceptText
    \/ EnterInclude
    \/ StackOverflow
    \/ IncludeNotFound
    \/ ReturnFragment
    \/ ReturnStatement

SpecInclude == IncludeInit /\ [][IncludeNext]_vars

(***************************************************************************)
(* C6  cycles of includes                                                  *)
(***************************************************************************)

\* the fragments that fragment k includes
Refs(k) ==
    { j \in 1..Len(fragments) :
        \E i \in 1..Len(fragments[k].nodes) :
            /\ fragments[k].nodes[i].kind = "include"
            /\ RefKey(fragments[k].nodes[i].mapper, fragments[k].nodes[i].RefId)
                   = SqlKey(fragments[j]) }

RECURSIVE Closure(_, _)
\* the fragments reached from those of S by n includes or fewer
Closure(S, n) == IF n = 0 THEN S ELSE Closure(S \cup UNION { Refs(k) : k \in S }, n - 1)

\* statement s, which includes f1, reaches a fragment that includes itself, directly
\* or through other fragments
OnCycle ==
    \E k \in Closure({1}, Len(fragments)) : k \in Closure(Refs(k), Len(fragments))

\* C6: the render of a statement that reaches a cycle of includes, in a mapper that
\* has loaded, ends with an error that the render returns
C6_CyclesAreReported ==
    (outcome \in {"error", "returned", "fatal"} /\ OnCycle) => outcome = "error"

\* a render with no cycle in reach has rendered its includes and returned
IncludesRender ==
    (outcome \in {"error", "returned", "fatal"} /\ ~ OnCycle) => outcome # "fatal"

(***************************************************************************)
(* Concurrent renders                                                      *)
(***************************************************************************)

\* the renders that run at the same time, each in a goroutine of its own
MaxRenders == 2

Renders == 1..MaxRenders

\* the statements they render
ConcStatements == {"both", "s7", "unlinked"}

\* the IncludeNodes a render of the statement comes to, in the order of the render
IncludesOf(id) == OfKind(Flatten(GetStatementByID(id).Nodes), "include")

\* i.sqlNode, a Node: an interface value is two words in memory, the type word and
\* the data word ("" is nil; both name the fragment once it is stored).  With them
\* the renders that have read and that have written the field since the renders
\* started.
NilWord == [tab |-> "", data |-> "", read |-> {}, written |-> {}]

LinkedWord(key) == [tab |-> key, data |-> key, read |-> {}, written |-> {}]

\* the fields as the loader leaves them (parseInclude sets mapper and refid only),
\* and as a render that has returned before the renders start leaves them
ColdWords == [i \in IncludeIds |-> NilWord]

\* the word of IncludeNode i after a render that has come to the IncludeNodes nodes
WordAfter(nodes, i) ==
    IF \A k \in 1..Len(nodes) : nodes[k].nid # i THEN NilWord
    ELSE LET n == nodes[CHOOSE k \in 1..Len(nodes) : nodes[k].nid = i]
             g == GetSQLNodeByID(n.mapper, n.refId)
         IN  IF g.err = "" THEN LinkedWord(g.key) ELSE NilWord

WarmWords ==
    [i \in IncludeIds |->
        WordAfter(IncludesOf("both") \o IncludesOf("s7") \o IncludesOf("unlinked"), i)]

ConcInit ==
    /\ RenderIdle /\ LoadIdle /\ IncludeIdle
    /\ \E job \in [Renders -> ConcStatements] : inc = [t \in Renders |-> IncludesOf(job[t])]
    /\ pc = [t \in Renders |-> "check"]
    /\ seen = [t \in Renders |-> [tab |-> "", data |-> "", local |-> ""]]
    /\ word \in {ColdWords, WarmWords}
    /\ races = {}

\* the IncludeNode render t is in
Node(t) == inc[t][1]

\* render t reads i.sqlNode: the access races with a write of another render
Read(t, w) == [w EXCEPT !.read = @ \cup {t}]

ReadRaces(t, w) == w.written \ {t} # {}

\* render t writes i.sqlNode: the access races with a read or a write of another
\* render
WriteRaces(t, w) == (w.read \cup w.written) \ {t} # {}

Raced(t, racing) == IF racing THEN races \cup {Node(t).nid} ELSE races

\* if i.sqlNode == nil: the type word is read and compared
Check(t) ==
    /\ pc[t] = "check"
    /\ word' = [word EXCEPT ![Node(t).nid] = Read(t, @)]
    /\ races' = Raced(t, ReadRaces(t, word[Node(t).nid]))
    /\ pc' = [pc EXCEPT ![t] = IF word[Node(t).nid].tab = "" THEN "resolve" ELSE "loadTab"]
    /\ UNCHANGED << inc, seen, renderVars, loadVars, includeVars >>

\* what GetSQLNodeByID has returned to render t as g: the error ends the render,
\* the sql node is what the render stores next
Got(t, g) ==
    /\ pc' = [pc EXCEPT ![t] = IF g.err # "" THEN "failed" ELSE "store"]
    /\ seen' = [seen EXCEPT ![t].local = g.key]

\* sqlNode, err := i.mapper.GetSQLNodeByID(i.refId)
Resolve(t) ==
    /\ pc[t] = "resolve"
    /\ Got(t, GetSQLNodeByID(Node(t).mapper, Node(t).refId))
    /\ UNCHANGED << inc, word, races, renderVars, loadVars, includeVars >>

\* i.sqlNode = sqlNode: the two words are written one after the other, in the order
\* the compiler has chosen
Store(t, w) ==
    /\ pc[t] \in {"store", "store" \o w}
    /\ word' = [word EXCEPT ![Node(t).nid] =
                   [@ EXCEPT !.tab = IF w = "Tab" THEN seen[t].local ELSE @,
                             !.data = IF w = "Data" THEN seen[t].local ELSE @,
                             !.written = @ \cup {t}]]
    /\ races' = Raced(t, WriteRaces(t, word[Node(t).nid]))
    /\ pc' = [pc EXCEPT ![t] = CASE pc[t] # "store" -> "loadTab"
                                 [] w = "Tab" -> "storeData"
                                 [] OTHER -> "storeTab"]
    /\ UNCHANGED << inc, seen, renderVars, loadVars, includeVars >>

\* i.sqlNode.Accept(...): the type word is read
LoadTab(t) ==
    /\ pc[t] = "loadTab"
    /\ word' = [word EXCEPT ![Node(t).nid] = Read(t, @)]
    /\ races' = Raced(t, ReadRaces(t, word[Node(t).nid]))
    /\ seen' = [seen EXCEPT ![t].tab = word[Node(t).nid].tab]
    /\ pc' = [pc EXCEPT ![t] = "loadData"]
    /\ UNCHANGED << inc, renderVars, loadVars, includeVars >>

\* the data word is read and SQLNode.Accept is called on it: a nil data word is
\* dereferenced and the program panics; else the fragment's nodes run, and the
\* render goes on to its next IncludeNode or returns
LoadData(t) ==
    /\ pc[t] = "loadData"
    /\ word' = [word EXCEPT ![Node(t).nid] = Read(t, @)]
    /\ races' = Raced(t, ReadRaces(t, word[Node(t).nid]))
    /\ seen' = [seen EXCEPT ![t].data = word[Node(t).nid].data]
    /\ IF word[Node(t).nid].data = ""
       THEN pc' = [pc EXCEPT ![t] = "panicked"] /\ UNCHANGED inc
       ELSE /\ inc' = [inc EXCEPT ![t] = Tail(@)]
            /\ pc' = [pc EXCEPT ![t] = IF Len(inc[t]) = 1 THEN "returned" ELSE "check"]
    /\ UNCHANGED << renderVars, loadVars, includeVars >>

ConcNext ==
    \E t \in Renders :
        \/ Check(t)
        \/ Resolve(t)
        \/ \E w \in {"Tab", "Data"} : Store(t, w)
        \/ LoadTab(t)
        \/ LoadData(t)

SpecConc == ConcInit /\ [][ConcNext]_vars

(***************************************************************************)
(* C7  the sqlNode of an IncludeNode under concurrent renders              *)
(***************************************************************************)

\* C7: no render writes the sqlNode of an IncludeNode that another render reads or
\* writes at the same time; nothing orders the accesses of two renders, so that a
\* write of one and an access of another to the same field are at the same time
C7_NoUnsynchronizedPublication == races = {}

\* renders that start after the fields are set only read them
WarmRendersOnlyRead == (word = WarmWords) => races = {}

\* a render has called Accept on a sqlNode of which another render had stored one
\* word only
TornRead == \E t \in Renders : pc[t] = "panicked"

====
